---- MODULE Spec2Model ----
(***************************************************************************)
(* A state-machine model of the elysia agent library:                      *)
(*   - the run loop Agent.Run (agent/agent.go) with its retry budgets,     *)
(*     usage limits and iteration cap;                                     *)
(*   - the response-format engine (types/response_format.go);              *)
(*   - the streaming MessageAccumulator.                                   *)
(***************************************************************************)
EXTENDS Integers, Sequences, FiniteSets, TLC

(***************************************************************************)
(* Program constants.                                                      *)
(***************************************************************************)
maxIterations == 10

OutputToolName == "_output"

(***************************************************************************)
(* Bounds of the model.                                                    *)
(***************************************************************************)
\* largest retry budget / request limit a configuration is drawn with
MaxRetries == 11
\* most tool calls the model puts into one response
MaxCalls == 2
\* request limit that keeps the general runs short
MaxRequests == 2
\* longest seed history
MaxSeed == 1
\* most characters or escapes in a JSON string of an extractor input
MaxStr == 1
\* most characters of prose before and after the JSON of an extractor input
MaxProse == 1
\* longest text content streamed to an accumulator
MaxText == 2
\* longest argument text streamed to an accumulator, the sample objects aside
MaxArg == 3
\* largest number of completion tokens one response reports
MaxTokens == 3

\* names of the tools registered with the agent (Agent.toolMap keys)
Tools == {"t1", "t2"}

(***************************************************************************)
(* State of one run of Agent.Run.                                          *)
(***************************************************************************)
VARIABLES
    cfg,                  \* agent options, run options and the environment of the run
    pc,                   \* "loop": top of the for loop; "tools": inside the tool-call loop; "done"
    i,                    \* loop variable of Run
    requestCount,         \* Run: requestCount
    successfulToolCalls,  \* Run: successfulToolCalls
    outputRetryCount,     \* Run: outputRetryCount
    toolRetries,          \* Run: toolRetries map (missing key reads as 0)
    messages,             \* rc.Messages, one tag per message
    pending,              \* tool calls of the current assistant message not yet executed
    rc,                   \* RunContext fields set for the tool call: Retry, MaxRetries
    usage,                \* rc.Usage
    result,               \* what Run returned
    chatCalls,            \* number of transport dispatches (RawChat invocations)
    execCount,            \* per tool: number of Execute invocations
    lastOutcome,          \* per tool: outcome of its latest Execute ("none" before the first)
    lastRetry,            \* per tool: rc.Retry its latest Execute observed
    toolTurns,            \* number of responses whose tool calls the loop went on to execute
    lastErr,              \* the error of the latest Chat ("none" when it returned a response)
    lastRaw,              \* what RawChat returned to the latest Chat
    ctxDone,              \* the context given to Run has been cancelled
    wrapped,              \* the latest call of a NewTool wrapper, and the handler calls so far
    toolMsgIds            \* the call ids the tool messages of the current turn refer to

(***************************************************************************)
(* State of one call of ExtractStructuredContent.                          *)
(***************************************************************************)
VARIABLES
    xs                    \* [pc, mode, msg, out]: the arguments and, once called, the result

(***************************************************************************)
(* State of one call of ExtractJSON and of one MessageAccumulator.         *)
(***************************************************************************)
VARIABLES
    js,                   \* [pc, kind, enc, p1, p2, text, out, err]
    acc                   \* [pc, version, T, J, ma, out]

runVars == <<cfg, pc, i, requestCount, successfulToolCalls, outputRetryCount,
             toolRetries, messages, pending, rc, usage, result, chatCalls,
             execCount, lastOutcome, lastRetry, toolTurns, lastErr, lastRaw,
             ctxDone, wrapped, toolMsgIds>>

vars == <<runVars, xs, js, acc>>

(***************************************************************************)
(* Messages.  A message is modelled by a tag; its role follows.            *)
(***************************************************************************)
Role(tag) ==
    CASE tag \in {"seed", "prompt", "feedback"} -> "user"
      [] tag \in {"calls", "assistant"} -> "assistant"
      [] OTHER -> "tool"

\* types.NewToolResultMessage: the message carries the result's content
NewToolResultMessagePlain(isError) == "result"

NewToolResultMessage(isError) == IF isError THEN "errresult" ELSE "result"

(***************************************************************************)
(* Results of Run.                                                         *)
(***************************************************************************)
NoResult == [kind |-> "none", err |-> "", tool |-> "", value |-> 0, max |-> 0, cause |-> ""]

Success == [NoResult EXCEPT !.kind = "success"]

Failure(err) == [NoResult EXCEPT !.kind = "error", !.err = err]

\* &UsageLimitExceeded{Limit, Value, Max}
UsageLimitExceeded(limit, value, max) ==
    [NoResult EXCEPT !.kind = "error", !.err = "usage_limit", !.cause = limit,
                     !.value = value, !.max = max]

(***************************************************************************)
(* Retry budgets (agent.go).                                               *)
(***************************************************************************)
\* Priority: run override > tool-specific > agent default
getEffectiveRetriesToolFirst(tool, c) ==
    IF c.toolRetries[tool] > 0 THEN c.toolRetries[tool]
    ELSE IF c.runRetriesSet THEN c.runRetries
    ELSE c.retries

getEffectiveRetries(tool, c) ==
    IF c.runRetriesSet THEN c.runRetries
    ELSE IF c.toolRetries[tool] > 0 THEN c.toolRetries[tool]
    ELSE c.retries

\* the output budget without the fallback
getEffectiveOutputRetriesOwn(c) == c.outputRetries

\* Falls back to retries if outputRetries is 0
getEffectiveOutputRetries(c) ==
    IF c.outputRetries > 0 THEN c.outputRetries ELSE c.retries

\* errors.As against SchemaValidationError, ToolNotCalledError, OutputToolMisuseError
isOutputValidationError(err) ==
    err \in {"schema_validation", "tool_not_called", "output_tool_misuse"}

\* a.toolMap[name]; "" stands for nil
findToolDefault(name) == IF name \in Tools THEN name ELSE "t1"

findTool(name) == IF name \in Tools THEN name ELSE ""

\* the condition of the for loop of Run, negated
IterationsExhaustedNever(n) == FALSE

IterationsExhausted(n) == n >= maxIterations

\* the request-limit check at the top of an iteration
RequestLimitReachedOff(count, limit) == limit > 0 /\ count > limit

RequestLimitReached(count, limit) == limit > 0 /\ count >= limit

\* range msg.ToolCalls: the position of the call to execute after done calls
\* of the response; a call's position stands for its id
NextCallReversed(calls, done) == Len(calls) - done

NextCall(calls, done) == done + 1

\* IsModelRetry(execErr) on the error Execute returned
IsModelRetryNever(outcome) == FALSE

IsModelRetry(outcome) == outcome = "modelRetry"

\* the check made when a tool call returned ModelRetry
RetriesExhaustedOff(retryCount, maxRetries) == retryCount > maxRetries

RetriesExhaustedLate(retryCount, maxRetries) == retryCount >= maxRetries + 1

RetriesExhausted(retryCount, maxRetries) == retryCount >= maxRetries

\* the check made when the transport or the decode reported an output failure
OutputRetriesExhaustedOff(count, max) == count > max

OutputRetriesExhausted(count, max) == count >= max

\* the value stored in toolRetries[tool.Name] after a call that did not end the run
NextToolRetriesNoReset(outcome, retryCount) ==
    IF outcome = "modelRetry" THEN retryCount + 1 ELSE retryCount

NextToolRetries(outcome, retryCount) ==
    IF outcome = "modelRetry" THEN retryCount + 1 ELSE 0

\* successfulToolCalls after a call whose Execute returned no error
CountExecutionNonError(outcome, count) ==
    IF outcome = "ok" THEN count + 1 ELSE count

CountExecution(outcome, count) ==
    IF outcome \in {"ok", "errResult"} THEN count + 1 ELSE count

\* the tool-calls limit check after a call counted as successful
ToolCallsLimitExceededAt(count, limit) == limit > 0 /\ count >= limit

ToolCallsLimitExceeded(count, limit) == limit > 0 /\ count > limit

\* the Usage of a response that reports tokens completion tokens: the
\* transports of the model report 2 * tokens + 1 prompt tokens with them, and
\* the sum of both as the total
ReportedUsage(tokens) ==
    [PromptTokens |-> 2 * tokens + 1, CompletionTokens |-> tokens,
     TotalTokens |-> 3 * tokens + 1]

\* rc.Usage after a response that is appended to the history
AccumulateUsageLast(u, hasUsage, tokens) ==
    IF hasUsage THEN ReportedUsage(tokens) ELSE u

AccumulateUsage(u, hasUsage, tokens) ==
    IF hasUsage
    THEN [PromptTokens |-> u.PromptTokens + ReportedUsage(tokens).PromptTokens,
          CompletionTokens |-> u.CompletionTokens + ReportedUsage(tokens).CompletionTokens,
          TotalTokens |-> u.TotalTokens + ReportedUsage(tokens).TotalTokens]
    ELSE u

\* the completion-tokens check on one response
CompletionTokensExceededAt(tokens, limit, hasUsage) ==
    limit > 0 /\ hasUsage /\ tokens >= limit

CompletionTokensExceeded(tokens, limit, hasUsage) ==
    limit > 0 /\ hasUsage /\ tokens > limit

(***************************************************************************)
(* Tool Invocation Contract: what Tool.Execute returns to the loop.        *)
(*   "ok"         (result, nil), result.IsError = false                    *)
(*   "errResult"  (result, nil), result.IsError = true                     *)
(*   "modelRetry" (nil, *ModelRetry)                                       *)
(*   "execErr"    (nil, any other error)                                   *)
(***************************************************************************)
HandlerOutcomes == {"ok", "modelRetry", "error"}

validateAndExecute(inputOk, handler, outputOk) ==
    IF ~inputOk THEN "modelRetry"
    ELSE IF handler = "modelRetry" THEN "modelRetry"
    ELSE IF handler = "error" THEN "errResult"
    ELSE IF ~outputOk THEN "errResult"
    ELSE "ok"

\* the wrapper invokes the caller's handler only with a validated, decoded input
HandlerInvoked(inputOk) == inputOk

\* no wrapper called yet
NoInvocation == [inputOk |-> TRUE, handler |-> "none", out |-> "none", handlerCalls |-> 0]

\* the outcomes Execute of a tool can have: a tool built by NewTool goes
\* through validateAndExecute, any other Execute function may return anything
ExecOutcomes(kind) ==
    IF kind = "typed"
    THEN {validateAndExecute(a, h, b) : a \in BOOLEAN, h \in HandlerOutcomes, b \in BOOLEAN}
    ELSE {"ok", "errResult", "modelRetry", "execErr"}

(***************************************************************************)
(* Response-format engine, on the shape of a response.  A response message *)
(* is [calls, text, outArgs]: the names of its tool calls in order, what   *)
(* its text content is, and what the arguments of its first _output call   *)
(* are.  Text and arguments are one of                                     *)
(*   "empty"          no text                                             *)
(*   "conforming"     JSON that validates against the target schema        *)
(*   "nonconforming"  JSON that does not                                   *)
(*   "nojson"         text in which no JSON value can be located           *)
(*   "undecodable"    JSON that conforms to the schema and that            *)
(*                    json.Unmarshal rejects for the output type           *)
(***************************************************************************)
TextKinds == {"empty", "conforming", "nonconforming", "nojson"}

\* the names of the calls that are not _output, in order
OtherToolsAll(calls) == calls

OtherTools(calls) == SelectSeq(calls, LAMBDA n : n # OutputToolName)

\* the message calls the output tool
HasOutputCallAny(calls) == Len(calls) > 0

HasOutputCall(calls) == \E k \in 1..Len(calls) : calls[k] = OutputToolName

\* ValidateJSONString(content, rf.Schema) = nil
ValidatesAgainstSchema(content) == content \in {"conforming", "undecodable"}

\* ExtractJSON on the text of the message: "" stands for its error
ExtractJSONKind(text) ==
    IF text \in {"conforming", "nonconforming", "undecodable"} THEN text ELSE ""

\* raw is the content as it was extracted, before the schema validation
Extracted(content, err, otherTools, calls, appended) ==
    [content |-> content, err |-> err, otherTools |-> otherTools,
     calls |-> calls, appended |-> appended, raw |-> content]

\* the tail of ExtractStructuredContent, common to the three modes
ValidateExtractedUnchecked(content, calls, appended) ==
    IF Len(calls) > 0 THEN [Extracted("", "none", <<>>, calls, appended) EXCEPT !.raw = content]
    ELSE Extracted(content, "none", <<>>, calls, appended)

ValidateExtracted(content, calls, appended) ==
    IF Len(calls) > 0 THEN [Extracted("", "none", <<>>, calls, appended) EXCEPT !.raw = content]
    ELSE IF content # "" /\ ~ValidatesAgainstSchema(content)
         THEN [Extracted("", "schema_validation", <<>>, calls, appended) EXCEPT !.raw = content]
    ELSE Extracted(content, "none", <<>>, calls, appended)

\* the tool calls and content parts of the message msg once the extraction
\* that returned x is over
MessageAfterPrepended(msg, x) ==
    [calls |-> x.calls,
     parts |-> (IF x.appended THEN <<x.raw>> ELSE <<>>)
                  \o (IF msg.text = "empty" THEN <<>> ELSE <<msg.text>>)]

MessageAfter(msg, x) ==
    [calls |-> x.calls,
     parts |-> (IF msg.text = "empty" THEN <<>> ELSE <<msg.text>>)
                  \o (IF x.appended THEN <<x.raw>> ELSE <<>>)]

\* mode "" stands for rf.Schema = nil
ExtractStructuredContent(mode, msg) ==
    CASE mode = "" -> Extracted("", "none", <<>>, msg.calls, FALSE)
      [] mode = "native" ->
            ValidateExtracted(IF msg.text = "empty" THEN "" ELSE msg.text, msg.calls, FALSE)
      [] mode = "tool" ->
            IF HasOutputCall(msg.calls)
            THEN IF Len(msg.calls) > 1
                 THEN Extracted("", "output_tool_misuse", OtherTools(msg.calls), msg.calls, FALSE)
                 ELSE ValidateExtracted(msg.outArgs, <<>>, TRUE)
            ELSE IF Len(msg.calls) = 0
                 THEN Extracted("", "tool_not_called", <<>>, msg.calls, FALSE)
                 ELSE ValidateExtracted("", msg.calls, FALSE)
      [] mode = "prompted" ->
            IF ExtractJSONKind(msg.text) = ""
            THEN Extracted("", "no_valid_json", <<>>, msg.calls, FALSE)
            ELSE ValidateExtracted(ExtractJSONKind(msg.text), msg.calls, FALSE)
      [] OTHER -> Extracted("", "unsupported_mode", <<>>, msg.calls, FALSE)

(***************************************************************************)
(* Text.  A text is a sequence of characters, each a one-character string. *)
(* The alphabet is the structural characters of JSON, the digit 1, the     *)
(* letter a, the space, and two characters that stand for longer pieces of *)
(* text: Fence for the three backquotes of a code fence and "j" for the    *)
(* word json.  JSON is read over this alphabet: numbers are runs of 1,     *)
(* string escapes are \" and \\, the only white space is the space.        *)
(***************************************************************************)
Fence == "~"

IsSpace(c) == c = " "

SetMin(ks) == CHOOSE k \in ks : \A m \in ks : k <= m

SetMax(ks) == CHOOSE k \in ks : \A m \in ks : k >= m

\* strings.TrimSpace
TrimSpace(s) ==
    LET ks == {k \in 1..Len(s) : ~IsSpace(s[k])}
    IN  IF ks = {} THEN <<>> ELSE SubSeq(s, SetMin(ks), SetMax(ks))

\* strings.Index for a one-character needle; 0 stands for -1
Index(s, c) ==
    LET ks == {k \in 1..Len(s) : s[k] = c}
    IN  IF ks = {} THEN 0 ELSE SetMin(ks)

(***************************************************************************)
(* encoding/json as the program uses it: a text is valid when it is one    *)
(* JSON value between optional white space; decoding yields the value,     *)
(* written here as the text of the value without insignificant white       *)
(* space.                                                                  *)
(***************************************************************************)
NoValue == [ok |-> FALSE, pos |-> 0, out |-> <<>>]

Value(pos, out) == [ok |-> TRUE, pos |-> pos, out |-> out]

\* the first position from p on that holds no white space
SkipSpace(s, p) ==
    LET ks == {k \in p..Len(s) : ~IsSpace(s[k])}
    IN  IF ks = {} THEN Len(s) + 1 ELSE SetMin(ks)

RECURSIVE StringEnd(_, _)
\* the position of the quote closing the string whose content starts at q; 0 if none
StringEnd(s, q) ==
    IF q > Len(s) THEN 0
    ELSE IF s[q] = "\"" THEN q
    ELSE IF s[q] = "\\"
         THEN IF q + 1 <= Len(s) /\ s[q + 1] \in {"\"", "\\"}
              THEN StringEnd(s, q + 2) ELSE 0
    ELSE StringEnd(s, q + 1)

ParseString(s, p) ==
    LET e == StringEnd(s, p + 1)
    IN  IF e = 0 THEN NoValue ELSE Value(e + 1, SubSeq(s, p, e))

ParseNumber(s, p) ==
    LET ks == {k \in p..Len(s) : s[k] # "1"}
        e == IF ks = {} THEN Len(s) ELSE SetMin(ks) - 1
    IN  Value(e + 1, SubSeq(s, p, e))

RECURSIVE ParseValue(_, _)
RECURSIVE ParseElements(_, _, _)
RECURSIVE ParseMembers(_, _, _)

\* the elements of an array from position q on, out being the text read so far
ParseElements(s, q, out) ==
    LET v == ParseValue(s, q)
        r == SkipSpace(s, v.pos)
    IN  IF ~v.ok \/ r > Len(s) THEN NoValue
        ELSE IF s[r] = "," THEN ParseElements(s, SkipSpace(s, r + 1), out \o v.out \o <<",">>)
        ELSE IF s[r] = "]" THEN Value(r + 1, out \o v.out \o <<"]">>)
        ELSE NoValue

\* the members of an object from position q on
ParseMembers(s, q, out) ==
    LET k == IF q <= Len(s) /\ s[q] = "\"" THEN ParseString(s, q) ELSE NoValue
        c == SkipSpace(s, k.pos)
        v == ParseValue(s, SkipSpace(s, c + 1))
        r == SkipSpace(s, v.pos)
    IN  IF ~k.ok \/ c > Len(s) THEN NoValue
        ELSE IF s[c] # ":" \/ ~v.ok \/ r > Len(s) THEN NoValue
        ELSE IF s[r] = ","
             THEN ParseMembers(s, SkipSpace(s, r + 1), out \o k.out \o <<":">> \o v.out \o <<",">>)
        ELSE IF s[r] = "}" THEN Value(r + 1, out \o k.out \o <<":">> \o v.out \o <<"}">>)
        ELSE NoValue

ParseValue(s, p) ==
    IF p > Len(s) THEN NoValue
    ELSE IF s[p] = "\"" THEN ParseString(s, p)
    ELSE IF s[p] = "1" THEN ParseNumber(s, p)
    ELSE IF s[p] = "["
         THEN LET q == SkipSpace(s, p + 1)
              IN  IF q <= Len(s) /\ s[q] = "]" THEN Value(q + 1, <<"[", "]">>)
                  ELSE ParseElements(s, q, <<"[">>)
    ELSE IF s[p] = "{"
         THEN LET q == SkipSpace(s, p + 1)
              IN  IF q <= Len(s) /\ s[q] = "}" THEN Value(q + 1, <<"{", "}">>)
                  ELSE ParseMembers(s, q, <<"{">>)
    ELSE NoValue

\* the decoding of the text s: [ok, out, object]
Decode(s) ==
    LET p == SkipSpace(s, 1)
        v == ParseValue(s, p)
    IN  IF v.ok /\ SkipSpace(s, v.pos) > Len(s)
        THEN [ok |-> TRUE, out |-> v.out, object |-> s[p] = "{"]
        ELSE [ok |-> FALSE, out |-> <<>>, object |-> FALSE]

\* json.Valid
Valid(s) == Decode(s).ok

\* json.Unmarshal into a map[string]any: [err, val]
UnmarshalMap(s) ==
    IF Decode(s).ok /\ Decode(s).object
    THEN [err |-> FALSE, val |-> Decode(s).out]
    ELSE [err |-> TRUE, val |-> <<>>]

(***************************************************************************)
(* ExtractJSON (response_format.go).                                       *)
(***************************************************************************)
isValidJSON(s) == Valid(s)

\* the quote test of findMatchingBrace
ToggleStringNever(inString, c) == inString

ToggleString(inString, c) == IF c = "\"" THEN ~inString ELSE inString

RECURSIVE ScanBraces(_, _, _, _, _, _, _)
\* the loop of findMatchingBrace at the character of index n (from 0)
ScanBraces(s, n, depth, inString, escape, open, close) ==
    IF n >= Len(s) THEN -1
    ELSE LET c == s[n + 1]
         IN  IF escape THEN ScanBraces(s, n + 1, depth, inString, FALSE, open, close)
             ELSE IF c = "\\" /\ inString
                  THEN ScanBraces(s, n + 1, depth, inString, TRUE, open, close)
             ELSE IF ToggleString(inString, c) # inString
                  THEN ScanBraces(s, n + 1, depth, ~inString, FALSE, open, close)
             ELSE IF inString THEN ScanBraces(s, n + 1, depth, inString, FALSE, open, close)
             ELSE IF c = open THEN ScanBraces(s, n + 1, depth + 1, inString, FALSE, open, close)
             ELSE IF c = close
                  THEN IF depth - 1 = 0 THEN n
                       ELSE ScanBraces(s, n + 1, depth - 1, inString, FALSE, open, close)
             ELSE ScanBraces(s, n + 1, depth, inString, FALSE, open, close)

findMatchingBrace(s, open, close) == ScanBraces(s, 0, 0, FALSE, FALSE, open, close)

\* the submatch taken up to the last fence of t
CodeBlockLast(t) ==
    LET fs == {k \in 1..Len(t) : t[k] = Fence}
        f1 == SetMin(fs)
        a == IF f1 + 1 <= Len(t) /\ t[f1 + 1] = "j" THEN f1 + 2 ELSE f1 + 1
    IN  IF Cardinality(fs) < 2 THEN [found |-> FALSE, text |-> <<>>]
        ELSE [found |-> TRUE, text |-> SubSeq(t, SkipSpace(t, a), SetMax(fs) - 1)]

\* the submatch of the code-block pattern in t; found = FALSE when it does not match
CodeBlock(t) ==
    LET fs == {k \in 1..Len(t) : t[k] = Fence}
        f1 == SetMin(fs)
        a == IF f1 + 1 <= Len(t) /\ t[f1 + 1] = "j" THEN f1 + 2 ELSE f1 + 1
        b == SkipSpace(t, a)
        f2 == SetMin(fs \ {f1})
    IN  IF Cardinality(fs) < 2 THEN [found |-> FALSE, text |-> <<>>]
        ELSE [found |-> TRUE, text |-> SubSeq(t, b, f2 - 1)]

NoJSON == [err |-> TRUE, out |-> <<>>]

JSON(out) == [err |-> FALSE, out |-> out]

ExtractJSON(text) ==
    LET t == TrimSpace(text)
        block == CodeBlock(t)
        startObj == Index(t, "{")
        startArr == Index(t, "[")
        isObj == startObj # 0 /\ (startArr = 0 \/ startObj < startArr)
        start == IF isObj THEN startObj ELSE startArr
        end == findMatchingBrace(SubSeq(t, start, Len(t)),
                                 IF isObj THEN "{" ELSE "[", IF isObj THEN "}" ELSE "]")
    IN  IF isValidJSON(t) THEN JSON(t)
        ELSE IF block.found /\ isValidJSON(TrimSpace(block.text)) THEN JSON(TrimSpace(block.text))
        ELSE IF start # 0 /\ end # -1 /\ isValidJSON(SubSeq(t, start, start + end))
             THEN JSON(SubSeq(t, start, start + end))
        ELSE NoJSON

\* no call of ExtractJSON under way
NoExtractJSON ==
    [pc |-> "off", kind |-> "", enc |-> <<>>, p1 |-> <<>>, p2 |-> <<>>, text |-> <<>>,
     out |-> <<>>, err |-> FALSE]

\* NewMessageAccumulator: no role, no content, no tool call, no error
NewMessageAccumulator == [role |-> "", content |-> <<>>, toolCalls |-> <<>>, err |-> FALSE]

\* what Message returns: an error, or the role, the text and the tool calls
NoMessage == [err |-> TRUE, role |-> "", text |-> <<>>, calls |-> <<>>]

\* no accumulator in use
NoAccumulator ==
    [pc |-> "off", version |-> "", T |-> <<>>, J |-> <<>>, restT |-> <<>>, restJ |-> <<>>,
     deltas |-> 0, ma |-> NewMessageAccumulator, out |-> NoMessage]

(***************************************************************************)
(* The transport.  A raw response is what RawChat returns:                 *)
(*   kind "error"     an error err                                         *)
(*   kind "nochoice"  a response without a choice or without a message     *)
(*   kind "message"   one choice with a message, the StructuredContent sc  *)
(*                    the transport set itself, and a usage report         *)
(***************************************************************************)
RawResponse(kind, err, calls, text, outArgs, sc, hasUsage, tokens) ==
    [kind |-> kind, err |-> err, calls |-> calls, text |-> text, outArgs |-> outArgs,
     sc |-> sc, hasUsage |-> hasUsage, tokens |-> tokens]

\* no dispatch made yet
NoRawResponse == RawResponse("none", "", <<>>, "empty", "empty", "", FALSE, 0)

NoChat == [err |-> "none", noMessage |-> FALSE, calls |-> <<>>, sc |-> "",
           otherTools |-> <<>>, appended |-> FALSE, hasUsage |-> FALSE, tokens |-> 0]

\* baseClient.Chat: RawChat, then extraction when a schema is set
Chat(mode, raw) ==
    IF raw.kind = "error" THEN [NoChat EXCEPT !.err = raw.err]
    ELSE IF raw.kind = "nochoice"
         THEN [NoChat EXCEPT !.noMessage = TRUE, !.hasUsage = raw.hasUsage, !.tokens = raw.tokens]
    ELSE IF mode = ""
         THEN [NoChat EXCEPT !.calls = raw.calls, !.sc = raw.sc,
                             !.hasUsage = raw.hasUsage, !.tokens = raw.tokens]
    ELSE LET x == ExtractStructuredContent(mode, raw)
         IN  IF x.err # "none"
             THEN [NoChat EXCEPT !.err = x.err, !.otherTools = x.otherTools]
             ELSE [NoChat EXCEPT !.calls = x.calls, !.sc = x.content, !.appended = x.appended,
                                 !.hasUsage = raw.hasUsage, !.tokens = raw.tokens]

\* json.Unmarshal of the structured content into the output type succeeds
Decodes(sc) == sc # "undecodable"

CallSeqs(names, lo, hi) == UNION {[1..n -> names] : n \in lo..hi}

\* what the transport may answer in the environment e of a run
RawResponses(e) ==
    {RawResponse("error", err, <<>>, "empty", "empty", "", FALSE, 0) : err \in e.errs}
    \cup {RawResponse("nochoice", "", <<>>, "empty", "empty", "", FALSE, 0) : x \in e.noMessage}
    \cup {RawResponse("message", "", calls, text, outArgs, sc, u[1], u[2]) :
            calls \in CallSeqs(e.names, e.minCalls, e.maxCalls), text \in e.texts,
            outArgs \in e.outArgs, sc \in e.sc, u \in e.usages}

(***************************************************************************)
(* Agent.Run.  The run is cut at its two external calls: Iterate is one    *)
(* pass of the for loop up to the tool-call loop (limit check, Chat, the   *)
(* handling of the response), ExecuteTool is one pass of the tool-call     *)
(* loop (findTool, Execute, the classification of its outcome).            *)
(***************************************************************************)
S == [pc |-> pc, i |-> i, requestCount |-> requestCount,
      successfulToolCalls |-> successfulToolCalls, outputRetryCount |-> outputRetryCount,
      toolRetries |-> toolRetries, messages |-> messages, pending |-> pending, rc |-> rc,
      usage |-> usage, result |-> result, chatCalls |-> chatCalls, execCount |-> execCount,
      lastOutcome |-> lastOutcome, lastRetry |-> lastRetry, toolTurns |-> toolTurns,
      lastErr |-> lastErr, lastRaw |-> lastRaw, ctxDone |-> ctxDone,
      wrapped |-> wrapped, toolMsgIds |-> toolMsgIds]

Assign(n) ==
    /\ pc' = n.pc
    /\ i' = n.i
    /\ requestCount' = n.requestCount
    /\ successfulToolCalls' = n.successfulToolCalls
    /\ outputRetryCount' = n.outputRetryCount
    /\ toolRetries' = n.toolRetries
    /\ messages' = n.messages
    /\ pending' = n.pending
    /\ rc' = n.rc
    /\ usage' = n.usage
    /\ result' = n.result
    /\ chatCalls' = n.chatCalls
    /\ execCount' = n.execCount
    /\ lastOutcome' = n.lastOutcome
    /\ lastRetry' = n.lastRetry
    /\ toolTurns' = n.toolTurns
    /\ lastErr' = n.lastErr
    /\ lastRaw' = n.lastRaw
    /\ ctxDone' = n.ctxDone
    /\ wrapped' = n.wrapped
    /\ toolMsgIds' = n.toolMsgIds

\* return from Run
Return(s, res) == [s EXCEPT !.pc = "done", !.result = res]

\* an output failure whose feedback takes the place of the latest message
RetryOutputReplacing(s, c, err, cause) ==
    IF OutputRetriesExhausted(s.outputRetryCount, getEffectiveOutputRetries(c))
    THEN Return(s, [Failure(err) EXCEPT !.max = getEffectiveOutputRetries(c), !.cause = cause])
    ELSE [s EXCEPT !.outputRetryCount = @ + 1,
                   !.messages = [@ EXCEPT ![Len(@)] = "feedback"],
                   !.i = @ + 1]

\* an output failure: fatal when the budget is used up, else feedback and continue
RetryOutput(s, c, err, cause) ==
    IF OutputRetriesExhausted(s.outputRetryCount, getEffectiveOutputRetries(c))
    THEN Return(s, [Failure(err) EXCEPT !.max = getEffectiveOutputRetries(c), !.cause = cause])
    ELSE [s EXCEPT !.outputRetryCount = @ + 1,
                   !.messages = Append(@, "feedback"),
                   !.i = @ + 1]

\* the message appended for a tool call that did not end the run
AppendToolResultDropRetry(msgs, outcome) ==
    IF outcome = "modelRetry" THEN msgs
    ELSE Append(msgs, NewToolResultMessage(outcome # "ok"))

AppendToolResult(msgs, outcome) ==
    Append(msgs, NewToolResultMessage(outcome # "ok"))

IterateStep(s, c, raw) ==
    LET r == Chat(c.mode, raw)
        sent == [s EXCEPT !.requestCount = @ + 1, !.chatCalls = @ + 1, !.lastErr = r.err,
                          !.lastRaw = raw]
        accepted == [sent EXCEPT !.usage = AccumulateUsage(@, r.hasUsage, r.tokens),
                                 !.messages = Append(@, IF Len(r.calls) = 0
                                                        THEN "assistant" ELSE "calls")]
    IN  IF IterationsExhausted(s.i)
        THEN Return(s, [Failure("max_iterations") EXCEPT !.max = maxIterations])
        ELSE IF RequestLimitReached(s.requestCount, c.requestLimit)
        THEN Return(s, UsageLimitExceeded("request_limit", s.requestCount, c.requestLimit))
        ELSE IF r.err # "none"
        THEN IF isOutputValidationError(r.err)
             THEN RetryOutput(sent, c, "output_validation", r.err)
             ELSE Return(sent, Failure(r.err))
        ELSE IF r.noMessage
        THEN Return(sent, Failure("no_response"))
        ELSE IF CompletionTokensExceeded(r.tokens, c.completionTokensLimit, r.hasUsage)
        THEN Return(sent, UsageLimitExceeded("completion_tokens_limit", r.tokens,
                                             c.completionTokensLimit))
        ELSE IF Len(r.calls) = 0
        THEN IF r.sc # ""
             THEN IF ~Decodes(r.sc)
                  THEN RetryOutput(accepted, c, "output_unmarshal", "unmarshal")
                  ELSE Return(accepted, Success)
             ELSE IF c.mode # ""
                  THEN RetryOutput(accepted, c, "no_structured_output", "none")
                  ELSE Return(accepted, Success)
        ELSE [accepted EXCEPT !.pc = "tools", !.pending = r.calls, !.toolTurns = @ + 1,
                              !.toolMsgIds = <<>>]

ExecuteStep(s, c, outcome) ==
    LET calls == s.lastRaw.calls
        id == NextCall(calls, Len(calls) - Len(s.pending))
        name == calls[id]
        tool == findTool(name)
        retryCount == s.toolRetries[tool]
        maxRetries == getEffectiveRetries(tool, c)
        called == [s EXCEPT !.rc = [Retry |-> retryCount, MaxRetries |-> maxRetries],
                            !.execCount[tool] = @ + 1,
                            !.lastOutcome[tool] = outcome,
                            !.lastRetry[tool] = retryCount]
        next(st) == LET rest == Tail(st.pending)
                    IN  [st EXCEPT !.messages = AppendToolResult(@, outcome),
                                   !.toolMsgIds = Append(@, id),
                                   !.pending = rest,
                                   !.pc = IF rest = <<>> THEN "loop" ELSE "tools",
                                   !.i = IF rest = <<>> THEN @ + 1 ELSE @]
    IN  IF tool = ""
        THEN Return(s, [Failure("unknown_tool") EXCEPT !.tool = name])
        ELSE IF IsModelRetry(outcome)
        THEN IF RetriesExhausted(retryCount, maxRetries)
             THEN Return(called, [Failure("tool_retries") EXCEPT
                                     !.tool = tool, !.max = maxRetries, !.cause = "modelRetry"])
             ELSE next([called EXCEPT !.toolRetries[tool] = NextToolRetries(outcome, retryCount)])
        ELSE IF outcome = "execErr"
        THEN Return(called, [Failure("tool_execution_failed") EXCEPT !.tool = tool])
        ELSE LET counted == [called EXCEPT
                                !.toolRetries[tool] = NextToolRetries(outcome, retryCount),
                                !.successfulToolCalls = CountExecution(outcome, @)]
             IN  IF ToolCallsLimitExceeded(counted.successfulToolCalls, c.toolCallsLimit)
                 THEN Return(counted, UsageLimitExceeded("tool_calls_limit",
                                          counted.successfulToolCalls, c.toolCallsLimit))
                 ELSE next(counted)

\* the outcomes the call of name can have in the environment of the run
CallOutcomes(c, name) ==
    IF findTool(name) = "" THEN {"ok"}
    ELSE ExecOutcomes(c.toolKind[findTool(name)]) \cap c.env.outcomes

Iterate ==
    /\ pc = "loop"
    /\ \E raw \in RawResponses(cfg.env) : Assign(IterateStep(S, cfg, raw))
    /\ UNCHANGED <<cfg, xs, js, acc>>

ExecuteTool ==
    /\ pc = "tools"
    /\ \E outcome \in CallOutcomes(cfg, Head(pending)) : Assign(ExecuteStep(S, cfg, outcome))
    /\ UNCHANGED <<cfg, xs, js, acc>>

NextRun == Iterate \/ ExecuteTool

(***************************************************************************)
(* Configurations.                                                         *)
(***************************************************************************)
\* an environment in which the model calls t1 once per turn or answers in text
BaseEnv ==
    [errs |-> {}, noMessage |-> {}, names |-> {"t1"}, minCalls |-> 0, maxCalls |-> 1,
     texts |-> {"nojson"}, outArgs |-> {"conforming"}, sc |-> {""},
     usages |-> {<<TRUE, 1>>}, outcomes |-> {"ok"}]

\* New(client) with no option, Run(ctx, dep, WithPrompt(p)) with p non-empty
BaseCfg ==
    [retries |-> 0, outputRetries |-> 0, runRetriesSet |-> FALSE, runRetries |-> 0,
     toolRetries |-> [t \in Tools |-> 0], toolKind |-> [t \in Tools |-> "typed"],
     requestLimit |-> 0, toolCallsLimit |-> 0, completionTokensLimit |-> 0,
     mode |-> "", prompt |-> TRUE, seed |-> <<>>, env |-> BaseEnv]

\* no call of ExtractStructuredContent under way
NoExtract ==
    [pc |-> "off", mode |-> "", msg |-> [calls |-> <<>>, text |-> "empty", outArgs |-> "empty"],
     out |-> Extracted("", "none", <<>>, <<>>, FALSE)]

\* the variables of Run before its first iteration (p = "loop"), or with no
\* run under way (p = "off")
RunStart(configs, p) ==
    /\ cfg \in configs
    /\ pc = p
    /\ i = 0
    /\ requestCount = 0
    /\ successfulToolCalls = 0
    /\ outputRetryCount = 0
    /\ toolRetries = [t \in Tools |-> 0]
    /\ messages = cfg.seed \o (IF cfg.prompt THEN <<"prompt">> ELSE <<>>)
    /\ pending = <<>>
    /\ rc = [Retry |-> 0, MaxRetries |-> 0]
    /\ usage = [PromptTokens |-> 0, CompletionTokens |-> 0, TotalTokens |-> 0]
    /\ result = NoResult
    /\ chatCalls = 0
    /\ execCount = [t \in Tools |-> 0]
    /\ lastOutcome = [t \in Tools |-> "none"]
    /\ lastRetry = [t \in Tools |-> 0]
    /\ toolTurns = 0
    /\ lastErr = "none"
    /\ lastRaw = NoRawResponse
    /\ ctxDone = FALSE
    /\ wrapped = NoInvocation
    /\ toolMsgIds = <<>>

InitRun(configs) ==
    RunStart(configs, "loop") /\ xs = NoExtract /\ js = NoExtractJSON /\ acc = NoAccumulator

\* general runs: both tools, up to two calls per response, every outcome,
\* kept short by a request limit
GeneralEnv ==
    [BaseEnv EXCEPT !.errs = {"transport"},
                    !.names = Tools,
                    !.maxCalls = 2,
                    !.outcomes = {"ok", "errResult", "modelRetry", "execErr"}]

\* t1 is built by NewTool, t2 has an Execute function of its own
GeneralConfigs ==
    {[BaseCfg EXCEPT !.retries = r, !.requestLimit = MaxRequests,
                     !.toolKind = [t \in Tools |-> IF t = "t1" THEN "typed" ELSE "raw"],
                     !.env = GeneralEnv] :
        r \in 0..1}

Init == InitRun(GeneralConfigs)

Next == NextRun

Spec == Init /\ [][Next]_vars

(***************************************************************************)
(* Runs in which the model calls t1 on every turn and every invocation of  *)
(* t1 returns ModelRetry.  No usage limit is configured.                   *)
(***************************************************************************)
\* both tools given as Tool values with an Execute function of their own
OwnExecute == [t \in Tools |-> "raw"]

RetryEnv ==
    [BaseEnv EXCEPT !.minCalls = 1, !.maxCalls = MaxCalls, !.outcomes = {"modelRetry"}]

\* the budget comes from the agent default, from the tool or from the run override
RetryConfigs ==
    {[BaseCfg EXCEPT !.retries = r,
                     !.toolRetries = [t \in Tools |-> IF t = "t1" THEN tr ELSE 0],
                     !.runRetriesSet = o[1], !.runRetries = o[2],
                     !.toolKind = OwnExecute, !.env = RetryEnv] :
        r \in 0..MaxRetries, tr \in {0, 3}, o \in {<<FALSE, 0>>, <<TRUE, 0>>, <<TRUE, 2>>}}

InitRetry == InitRun(RetryConfigs)

SpecRetry == InitRetry /\ [][Next]_vars

\* the result of a run that failed because tool used up its budget of n retries
RetryExhausted(tool, n) ==
    [Failure("tool_retries") EXCEPT !.tool = tool, !.max = n, !.cause = "modelRetry"]

\* C1 as stated: for every N, a tool with effective max-retries N whose every
\* invocation returns ModelRetry is invoked exactly N+1 times, after which the
\* run fails with the retry-exhausted error naming the tool, N and the message.
C1_EveryBudget ==
    pc = "done" =>
        /\ result = RetryExhausted("t1", getEffectiveRetries("t1", cfg))
        /\ execCount["t1"] = getEffectiveRetries("t1", cfg) + 1

\* C1: for every N below the iteration cap, a tool with effective max-retries
\* N whose every invocation returns ModelRetry is never invoked more than N+1
\* times, and the run ends, after exactly N+1 invocations, with the
\* retry-exhausted error naming the tool, N and the retry message.
C1_BudgetExhaustion ==
    LET N == getEffectiveRetries("t1", cfg)
    IN  /\ execCount["t1"] <= N + 1
        /\ (pc = "done" /\ N < maxIterations) =>
              /\ result = RetryExhausted("t1", N)
              /\ execCount["t1"] = N + 1

\* a run with the agent default of 4 retries that ended after the 5th invocation
C1_Witness ==
    /\ pc = "done"
    /\ ~cfg.runRetriesSet /\ cfg.toolRetries["t1"] = 0 /\ cfg.retries = 4
    /\ execCount["t1"] = 5
    /\ result = RetryExhausted("t1", 4)

(***************************************************************************)
(* General runs (Spec).                                                    *)
(***************************************************************************)
\* the step is an invocation of Execute of tool t
Invokes(t) == execCount'[t] = execCount[t] + 1

\* C2: the retry count a handler observes is 0 on the tool's first call, one
\* more than at its previous call when that call returned ModelRetry, and 0
\* when the previous call returned a non-error result.
C2_RetryObserved ==
    [][\A t \in Tools :
         Invokes(t) =>
            /\ lastRetry'[t] = rc'.Retry
            /\ lastOutcome[t] = "none" => rc'.Retry = 0
            /\ lastOutcome[t] = "modelRetry" => rc'.Retry = lastRetry[t] + 1
            /\ lastOutcome[t] = "ok" => rc'.Retry = 0]_vars

\* the fourth call of t1 succeeded having observed 1 under a budget of one
\* retry: its third call was a ModelRetry that observed 0 after an earlier
\* call that had not consumed budget
C2_Witness ==
    /\ cfg.retries = 1
    /\ execCount["t1"] = 4
    /\ lastOutcome["t1"] = "ok"
    /\ lastRetry["t1"] = 1
    /\ rc.Retry = 1

\* C8 as stated: a tool call that fails with anything but ModelRetry never
\* aborts the run and never consumes retry budget; an error-flagged
\* tool-result message is appended and the loop continues.
C8_NeverAborts ==
    [][\A t \in Tools :
         (Invokes(t) /\ lastOutcome'[t] \in {"errResult", "execErr"}) =>
            /\ result' = NoResult
            /\ pc' # "done"
            /\ messages' = Append(messages, NewToolResultMessage(TRUE))
            /\ toolRetries'[t] <= toolRetries[t]]_vars

(***************************************************************************)
(* Runs under a request limit.                                             *)
(***************************************************************************)
LimitEnv == [BaseEnv EXCEPT !.errs = {"transport"}]

LimitConfigs ==
    {[BaseCfg EXCEPT !.requestLimit = l, !.toolKind = OwnExecute, !.env = LimitEnv] :
        l \in 0..MaxRetries}

InitLimit == InitRun(LimitConfigs)

SpecLimit == InitLimit /\ [][Next]_vars

\* C3: with RequestLimit = L > 0 at most L dispatches are issued; an iteration
\* that starts with L dispatches made fails with UsageLimitExceeded
\* (request_limit, max L) without calling the transport; with RequestLimit = 0
\* no run fails on this check.
C3_RequestLimit ==
    /\ [](cfg.requestLimit > 0 => chatCalls <= cfg.requestLimit)
    /\ []((result.err = "usage_limit" /\ result.cause = "request_limit") =>
             /\ cfg.requestLimit > 0
             /\ chatCalls = cfg.requestLimit
             /\ result = UsageLimitExceeded("request_limit", cfg.requestLimit, cfg.requestLimit))
    /\ [][(pc = "loop" /\ i < maxIterations /\ cfg.requestLimit > 0
             /\ chatCalls >= cfg.requestLimit) =>
            /\ chatCalls' = chatCalls
            /\ pc' = "done"
            /\ result' = UsageLimitExceeded("request_limit", cfg.requestLimit,
                                            cfg.requestLimit)]_vars

\* a run under a limit of 3 that was stopped with exactly 3 dispatches made
C3_Witness ==
    /\ cfg.requestLimit = 3
    /\ pc = "done"
    /\ chatCalls = 3
    /\ result = UsageLimitExceeded("request_limit", 3, 3)

(***************************************************************************)
(* Runs read for their history: with and without seed messages and prompt, *)
(* without a schema and in Tool mode.                                      *)
(***************************************************************************)
HistoryEnv(mode) ==
    [BaseEnv EXCEPT !.errs = {"schema_validation"},
                    !.names = IF mode = "tool" THEN {"t1", OutputToolName} ELSE {"t1"},
                    !.maxCalls = MaxCalls,
                    !.texts = {"empty", "conforming"},
                    !.outcomes = {"ok", "modelRetry"}]

HistoryConfigs ==
    {[BaseCfg EXCEPT !.retries = 1, !.requestLimit = MaxRequests, !.mode = md,
                     !.seed = [k \in 1..n |-> "seed"], !.prompt = p,
                     !.toolKind = OwnExecute, !.env = HistoryEnv(md)] :
        md \in {"", "tool"}, n \in 0..MaxSeed, p \in BOOLEAN}

InitHistory == InitRun(HistoryConfigs)

SpecHistory == InitHistory /\ [][Next]_vars

\* total number of Execute invocations of the run
Executed == execCount["t1"] + execCount["t2"]

\* the number of messages of msgs that carry tag
CountTag(msgs, tag) == Cardinality({k \in 1..Len(msgs) : msgs[k] = tag})

\* C9: when a run with a non-empty prompt succeeds without any output retry,
\* the number of dispatches is the number of turns that carried tool calls
\* plus one, and the history has |seed| + 1 + dispatches + (tool calls
\* executed) messages: the seed, the user prompt, per turn the assistant
\* message followed by its tool results, and last the final assistant message.
C9_History ==
    (result.kind = "success" /\ cfg.prompt /\ outputRetryCount = 0) =>
        LET first == Len(cfg.seed) + 2
            last == Len(messages)
        IN  /\ chatCalls = toolTurns + 1
            /\ last = Len(cfg.seed) + 1 + chatCalls + Executed
            /\ \A k \in 1..Len(cfg.seed) : messages[k] = "seed"
            /\ messages[Len(cfg.seed) + 1] = "prompt"
            /\ Role(messages[Len(cfg.seed) + 1]) = "user"
            /\ messages[last] = "assistant"
            /\ \A k \in first..(last - 1) :
                  /\ messages[k] \in {"calls", "result", "errresult"}
                  /\ messages[k] = "calls" => Role(messages[k + 1]) = "tool"
            /\ first < last => messages[first] = "calls"
            /\ CountTag(messages, "calls") = toolTurns
            /\ CountTag(messages, "result") + CountTag(messages, "errresult") = Executed

\* one tool call answered, then the final answer: 2 dispatches, 4 messages
C9_Witness ==
    /\ result.kind = "success"
    /\ cfg.seed = <<>> /\ cfg.prompt
    /\ chatCalls = 2
    /\ Executed = 1
    /\ messages = <<"prompt", "calls", "result", "assistant">>

(***************************************************************************)
(* Runs in Native mode whose transport fails output validation: always     *)
(* (the environment offers no response at all), or among tool turns and    *)
(* answers without content.                                                *)
(***************************************************************************)
ValidationErrs == {"schema_validation", "tool_not_called", "output_tool_misuse"}

AlwaysInvalidEnv == [BaseEnv EXCEPT !.errs = ValidationErrs, !.texts = {}]

SometimesInvalidEnv ==
    [BaseEnv EXCEPT !.errs = ValidationErrs \cup {"transport"},
                    !.texts = {"empty", "conforming"}]

OutputConfigs ==
    {[BaseCfg EXCEPT !.mode = "native", !.outputRetries = o, !.retries = r,
                     !.toolKind = OwnExecute, !.env = AlwaysInvalidEnv] :
        o \in 0..MaxRetries, r \in {0, 3}}
    \cup
    {[BaseCfg EXCEPT !.mode = "native", !.outputRetries = o, !.retries = r,
                     !.requestLimit = MaxRequests + 3,
                     !.toolKind = OwnExecute, !.env = SometimesInvalidEnv] :
        o \in 0..2, r \in {0, 3}}

InitOutput == InitRun(OutputConfigs)

SpecOutput == InitOutput /\ [][Next]_vars

\* the result of a run that failed on cause with its budget of n output retries used up
OutputExhausted(n, cause) ==
    [Failure("output_validation") EXCEPT !.max = n, !.cause = cause]

\* the output-retry budget R of the run
maxOutputRetries == getEffectiveOutputRetries(cfg)

\* C10 as stated: a transport that always fails validation is dispatched
\* exactly R+1 times, the run failing on the (R+1)-th failure naming R and the
\* condition.
C10_EveryBudget ==
    (pc = "done" /\ cfg.env.texts = {}) =>
        /\ chatCalls = maxOutputRetries + 1
        /\ result = OutputExhausted(maxOutputRetries, lastErr)

\* C10: a dispatch that fails with an output-validation condition appends
\* one feedback message and returns to the top of the loop while fewer than R
\* output recoveries have happened in the run, and otherwise fails the run
\* naming R and the condition; for R below the iteration cap a transport that
\* always fails validation is dispatched exactly R+1 times.
C10_OutputBudget ==
    /\ [][(chatCalls' = chatCalls + 1 /\ isOutputValidationError(lastErr')) =>
            IF outputRetryCount < maxOutputRetries
            THEN /\ outputRetryCount' = outputRetryCount + 1
                 /\ messages' = Append(messages, "feedback")
                 /\ pc' = "loop"
                 /\ result' = NoResult
            ELSE /\ pc' = "done"
                 /\ messages' = messages
                 /\ result' = OutputExhausted(maxOutputRetries, lastErr')]_vars
    /\ [](cfg.env.texts = {} =>
            /\ chatCalls <= maxOutputRetries + 1
            /\ (pc = "done" /\ maxOutputRetries < maxIterations) =>
                  /\ chatCalls = maxOutputRetries + 1
                  /\ result = OutputExhausted(maxOutputRetries, lastErr))

\* the budget of 3 falls back to the agent's retries; the 4th dispatch was fatal
C10_Witness ==
    /\ pc = "done"
    /\ cfg.env.texts = {}
    /\ cfg.outputRetries = 0 /\ cfg.retries = 3
    /\ chatCalls = 4
    /\ messages = <<"prompt", "feedback", "feedback", "feedback">>
    /\ result = OutputExhausted(3, "output_tool_misuse")

(***************************************************************************)
(* ExtractStructuredContent on its own: one call on any message.           *)
(***************************************************************************)
ExtractInputs ==
    {[pc |-> "in", mode |-> md, msg |-> [calls |-> c, text |-> t, outArgs |-> a],
      out |-> NoExtract.out] :
        md \in {"native", "tool", "prompted", "other"},
        c \in CallSeqs(Tools \cup {OutputToolName}, 0, MaxCalls + 1),
        t \in TextKinds, a \in {"conforming", "nonconforming"}}

InitExtract ==
    /\ RunStart({BaseCfg}, "off")
    /\ xs \in ExtractInputs
    /\ js = NoExtractJSON /\ acc = NoAccumulator

Extract ==
    /\ xs.pc = "in"
    /\ xs' = [xs EXCEPT !.pc = "out", !.out = ExtractStructuredContent(xs.mode, xs.msg)]
    /\ UNCHANGED <<runVars, js, acc>>

NextExtract == Extract

SpecExtract == InitExtract /\ [][NextExtract]_vars

\* how often name occurs in the sequence names
Occurrences(names, name) == Cardinality({k \in 1..Len(names) : names[k] = name})

\* C4: in Tool mode a response that calls _output together with at least one
\* other call yields no content but the misuse error, whose OtherTools holds
\* exactly the names of the calls that are not _output.
C4_MisuseNamesOthers ==
    (/\ xs.pc = "out" /\ xs.mode = "tool"
     /\ Len(xs.msg.calls) > 1
     /\ Occurrences(xs.msg.calls, OutputToolName) > 0) =>
        /\ xs.out.content = ""
        /\ xs.out.err = "output_tool_misuse"
        /\ Occurrences(xs.out.otherTools, OutputToolName) = 0
        /\ \A t \in Tools :
              Occurrences(xs.out.otherTools, t) = Occurrences(xs.msg.calls, t)

\* t1, _output and t2 called in one response: misuse naming t1 and t2
C4_Witness ==
    /\ xs.pc = "out" /\ xs.mode = "tool"
    /\ xs.msg.calls = <<"t1", OutputToolName, "t2">>
    /\ xs.out.err = "output_tool_misuse"
    /\ xs.out.otherTools = <<"t1", "t2">>

(***************************************************************************)
(* ExtractJSON on its own: one call on the encoding of a value, bare,      *)
(* inside a code fence, or with prose around it.                           *)
(***************************************************************************)
RECURSIVE Flatten(_)
Flatten(ss) == IF ss = <<>> THEN <<>> ELSE Head(ss) \o Flatten(Tail(ss))

\* what a string literal is made of: characters and the escaped quote
StrAtoms == {<<"{">>, <<Fence>>, <<"\\", "\"">>}

Quoted(b) == <<"\"">> \o b \o <<"\"">>

Scalars ==
    {<<"1">>} \cup {Quoted(Flatten(f)) : f \in UNION {[1..k -> StrAtoms] : k \in 0..MaxStr}}

Object(v) == <<"{", "\"", "a", "\"", ":">> \o v \o <<"}">>

Array(v) == <<"[">> \o v \o <<"]">>

Composites ==
    {<<"{", "}">>, <<"[", "]">>, <<"{", "\"", "a", "\"", ":", " ", "1", " ", "}">>,
     <<"{", "\"", "a", "\"", ":", "[", "1", "]", "}">>}
    \cup {Object(v) : v \in Scalars}
    \cup {Array(v) : v \in Scalars}
    \cup {Array(v \o <<",", "1">>) : v \in Scalars}

\* the JSON encodings of the values
Encodings == Scalars \cup Composites

ProseChars == {"a", " ", "{", "[", "\"", Fence}

Prose == UNION {[1..k -> ProseChars] : k \in 0..MaxProse}

JSONInput(kind, enc, p1, p2) ==
    [NoExtractJSON EXCEPT !.pc = "in", !.kind = kind, !.enc = enc, !.p1 = p1, !.p2 = p2,
                          !.text = p1 \o enc \o p2]

ExtractJSONInputs ==
    {JSONInput("bare", e, pad, pad) : e \in Encodings, pad \in {<<>>, <<" ">>}}
    \cup {JSONInput("fenced", e, <<Fence>> \o tag \o pad, pad \o <<Fence>>) :
            e \in Encodings, tag \in {<<>>, <<"j">>}, pad \in {<<>>, <<" ">>}}
    \cup {JSONInput("prose", e, p1, p2) : e \in Encodings, p1 \in Prose, p2 \in Prose}

InitJSON ==
    /\ RunStart({BaseCfg}, "off")
    /\ xs = NoExtract /\ acc = NoAccumulator
    /\ js \in ExtractJSONInputs

ExtractJSONCall ==
    /\ js.pc = "in"
    /\ js' = [js EXCEPT !.pc = "out", !.out = ExtractJSON(js.text).out,
                        !.err = ExtractJSON(js.text).err]
    /\ UNCHANGED <<runVars, xs, acc>>

NextJSON == ExtractJSONCall

SpecJSON == InitJSON /\ [][NextJSON]_vars

\* the call returned text that decodes to the value encoded by js.enc
RecoversValue == ~js.err /\ Decode(js.out).ok /\ Decode(js.out).out = Decode(js.enc).out

HasFence(s) == \E k \in 1..Len(s) : s[k] = Fence

IsComposite(e) == e[1] \in {"{", "["}

PlainProse(s) == \A k \in 1..Len(s) : s[k] \notin {"{", "[", "\"", Fence}

\* C7 as stated: the extractor recovers the value from its bare encoding,
\* from the encoding in a fenced block and from the encoding with arbitrary
\* prose before and after it.
C7_AnyProse == js.pc = "out" => RecoversValue

\* C7: the extractor returns text that decodes to v from the bare encoding of
\* v (string literals with braces and brackets included); from the encoding
\* in a fenced block when v is an object or array or its encoding holds no
\* code fence; from the encoding with prose around it when v is an object or
\* array, its encoding holds no code fence and the prose holds no brace,
\* bracket, quote or code fence.
C7_RoundTrip ==
    (/\ js.pc = "out"
     /\ \/ js.kind = "bare"
        \/ js.kind = "fenced" /\ (IsComposite(js.enc) \/ ~HasFence(js.enc))
        \/ /\ js.kind = "prose"
           /\ IsComposite(js.enc) /\ ~HasFence(js.enc)
           /\ PlainProse(js.p1) /\ PlainProse(js.p2))
    => RecoversValue

\* prose before an object whose string holds a brace
C7_Witness ==
    /\ js.pc = "out"
    /\ js.kind = "prose"
    /\ js.p1 = <<"a">> /\ js.p2 = <<" ">>
    /\ js.enc = Object(Quoted(<<"{">>))
    /\ ~js.err
    /\ js.out = js.enc

(***************************************************************************)
(* MessageAccumulator.  Two versions of the type are in the repository:    *)
(* "lazy" decodes the arguments of a tool call when Message is called,     *)
(* "eager" (the later one, with the fields err and parsed) tries to decode *)
(* them after every fragment.  toolCalls is the map from index to          *)
(* toolCallAccumulator, kept here as a function on the indexes in use.     *)
(***************************************************************************)
Indexes == {0}

\* &toolCallAccumulator{}; parsed.set = FALSE stands for a nil map
NewToolCall ==
    [id |-> "", name |-> "", arguments |-> <<>>, parsed |-> [set |-> FALSE, val |-> <<>>]]

\* the map of the accumulator as a function: absent indexes hold no entry
Lookup(toolCalls, idx) ==
    IF \E k \in 1..Len(toolCalls) : toolCalls[k].idx = idx
    THEN (CHOOSE e \in {toolCalls[k] : k \in 1..Len(toolCalls)} : e.idx = idx).tc
    ELSE NewToolCall

Store(toolCalls, idx, tc) ==
    IF \E k \in 1..Len(toolCalls) : toolCalls[k].idx = idx
    THEN [k \in 1..Len(toolCalls) |->
            IF toolCalls[k].idx = idx THEN [idx |-> idx, tc |-> tc] ELSE toolCalls[k]]
    ELSE Append(toolCalls, [idx |-> idx, tc |-> tc])

\* tc.arguments.WriteString(callDelta.Arguments)
AppendFragmentReplace(arguments, fragment) == fragment

AppendFragment(arguments, fragment) == arguments \o fragment

\* tryParseArguments: [tc, err]
tryParseArguments(tc) ==
    LET raw == TrimSpace(tc.arguments)
    IN  IF raw = <<>> THEN [tc |-> tc, err |-> FALSE]
        ELSE IF ~Valid(raw) THEN [tc |-> tc, err |-> FALSE]
        ELSE IF UnmarshalMap(raw).err THEN [tc |-> tc, err |-> TRUE]
        ELSE [tc |-> [tc EXCEPT !.parsed = [set |-> TRUE, val |-> UnmarshalMap(raw).val]],
              err |-> FALSE]

\* argumentsMap: [err, val]
argumentsMap(tc) ==
    LET rawArgs == TrimSpace(tc.arguments)
    IN  IF tc.parsed.set THEN [err |-> FALSE, val |-> tc.parsed.val]
        ELSE IF rawArgs = <<>> THEN [err |-> FALSE, val |-> <<"{", "}">>]
        ELSE UnmarshalMap(rawArgs)

\* the decoding inside Message of the lazy version
argumentsAtMessage(tc) ==
    LET rawArgs == TrimSpace(tc.arguments)
    IN  IF rawArgs = <<>> THEN [err |-> FALSE, val |-> <<"{", "}">>]
        ELSE UnmarshalMap(rawArgs)

\* the body of the loop of Update over delta.ToolCalls
UpdateCall(a, callDelta, version) ==
    LET tc0 == Lookup(a.toolCalls, callDelta.Index)
        tc1 == [tc0 EXCEPT !.id = IF callDelta.ID # "" THEN callDelta.ID ELSE @,
                           !.name = IF callDelta.FunctionName # ""
                                    THEN callDelta.FunctionName ELSE @]
        tc2 == [tc1 EXCEPT !.arguments = AppendFragment(@, callDelta.Arguments)]
        tried == tryParseArguments(tc2)
    IN  IF callDelta.Arguments = <<>>
        THEN [a EXCEPT !.toolCalls = Store(@, callDelta.Index, tc1)]
        ELSE IF version = "lazy"
        THEN [a EXCEPT !.toolCalls = Store(@, callDelta.Index, tc2)]
        ELSE [a EXCEPT !.toolCalls = Store(@, callDelta.Index, tried.tc),
                       !.err = @ \/ tried.err]

RECURSIVE UpdateCalls(_, _, _)
UpdateCalls(a, callDeltas, version) ==
    IF callDeltas = <<>> THEN a
    ELSE UpdateCalls(UpdateCall(a, Head(callDeltas), version), Tail(callDeltas), version)

\* the part of Update that merges the role and the text of the delta
UpdateContent(a, delta) ==
    [a EXCEPT !.role = IF delta.Role # "" THEN delta.Role ELSE @,
              !.content = @ \o delta.Content]

\* MessageAccumulator.Update
Update(a, delta, version) ==
    IF version = "eager" /\ a.err THEN a
    ELSE UpdateCalls(UpdateContent(a, delta), delta.ToolCalls, version)

RECURSIVE IndexesDescending(_)
\* the keys of the map from the largest down
IndexesDescending(idxs) ==
    IF idxs = {} THEN <<>>
    ELSE <<SetMax(idxs)>> \o IndexesDescending(idxs \ {SetMax(idxs)})

RECURSIVE SortedIndexes(_)
\* sort.Ints over the keys of the map
SortedIndexes(idxs) ==
    IF idxs = {} THEN <<>>
    ELSE <<SetMin(idxs)>> \o SortedIndexes(idxs \ {SetMin(idxs)})

\* MessageAccumulator.Message
Message(a, version) ==
    LET indexes == SortedIndexes({a.toolCalls[k].idx : k \in 1..Len(a.toolCalls)})
        args(k) == IF version = "eager"
                   THEN argumentsMap(Lookup(a.toolCalls, indexes[k]))
                   ELSE argumentsAtMessage(Lookup(a.toolCalls, indexes[k]))
    IN  IF version = "eager" /\ a.err THEN NoMessage
        ELSE IF \E k \in 1..Len(indexes) : args(k).err THEN NoMessage
        ELSE [err |-> FALSE, role |-> a.role, text |-> a.content,
              calls |-> [k \in 1..Len(indexes) |->
                            [id |-> Lookup(a.toolCalls, indexes[k]).id,
                             name |-> Lookup(a.toolCalls, indexes[k]).name,
                             args |-> args(k).val]]]

(***************************************************************************)
(* One accumulator fed a text T and an argument text J for one tool call,  *)
(* cut into deltas at any boundaries, then asked for the message.          *)
(***************************************************************************)
TextSample == <<"a", "1", " ", "a">>

ArgChars == {"{", "}", "1", "a"}

SampleObjects ==
    {<<"{", "\"", "a", "\"", ":", "1", "}">>,
     <<" ", "{", "}", " ">>,
     <<"{", "\"", "a", "\"", ":", " ", "\"", "}", "\"", "}">>}

ArgTexts == SampleObjects \cup UNION {[1..k -> ArgChars] : k \in 0..MaxArg}

InitAccumulator ==
    /\ RunStart({BaseCfg}, "off")
    /\ xs = NoExtract /\ js = NoExtractJSON
    /\ \E version \in {"lazy", "eager"}, n \in 0..MaxText, J \in ArgTexts :
          acc = [NoAccumulator EXCEPT !.pc = "feed", !.version = version,
                                      !.T = SubSeq(TextSample, 1, n), !.J = J,
                                      !.restT = SubSeq(TextSample, 1, n), !.restJ = J]

\* the delta that carries the next a characters of text and the next b
\* characters of arguments; the first delta of the call carries id and name
NextDelta(a, b) ==
    [Role |-> IF acc.deltas = 0 THEN "assistant" ELSE "",
     Content |-> SubSeq(acc.restT, 1, a),
     ToolCalls |->
        IF b = 0 THEN <<>>
        ELSE <<[Index |-> SetMin(Indexes),
                ID |-> IF acc.restJ = acc.J THEN "call_1" ELSE "",
                FunctionName |-> IF acc.restJ = acc.J THEN "f" ELSE "",
                Arguments |-> SubSeq(acc.restJ, 1, b)]>>]

Feed ==
    /\ acc.pc = "feed"
    /\ \E a \in 0..Len(acc.restT), b \in 0..Len(acc.restJ) :
          /\ a + b > 0
          /\ acc' = [acc EXCEPT !.ma = Update(@, NextDelta(a, b), acc.version),
                                !.restT = SubSeq(@, a + 1, Len(@)),
                                !.restJ = SubSeq(@, b + 1, Len(@)),
                                !.deltas = @ + 1]
    /\ UNCHANGED <<runVars, xs, js>>

Finish ==
    /\ acc.pc = "feed"
    /\ acc.restT = <<>> /\ acc.restJ = <<>>
    /\ acc' = [acc EXCEPT !.pc = "out", !.out = Message(acc.ma, acc.version)]
    /\ UNCHANGED <<runVars, xs, js>>

NextAccumulator == Feed \/ Finish

SpecAccumulator == InitAccumulator /\ [][NextAccumulator]_vars

\* C5: however T and J (a valid JSON object) are cut into deltas, Message
\* returns a message whose text is T and whose single tool call has the id
\* and name delivered and the arguments that J decodes to.
C5_Reassembly ==
    (acc.pc = "out" /\ Decode(acc.J).ok /\ Decode(acc.J).object) =>
        acc.out = [err |-> FALSE, role |-> "assistant", text |-> acc.T,
                   calls |-> <<[id |-> "call_1", name |-> "f",
                                args |-> Decode(acc.J).out]>>]

\* the object {"a":1} and the text a1 arrived in five deltas
C5_Witness ==
    /\ acc.pc = "out"
    /\ acc.version = "eager"
    /\ acc.deltas = 5
    /\ acc.T = <<"a", "1">>
    /\ acc.J = <<"{", "\"", "a", "\"", ":", "1", "}">>
    /\ ~acc.out.err
    /\ acc.out.text = <<"a", "1">>
    /\ acc.out.calls[1].args = acc.J

\* C6 as stated: Message returns an error whenever the argument text
\* received for a tool call is non-empty after trimming and is not valid
\* JSON, however the text was cut into fragments.
C6_InvalidIsError ==
    (acc.pc = "out" /\ TrimSpace(acc.J) # <<>> /\ ~Valid(TrimSpace(acc.J))) => acc.out.err

(***************************************************************************)
(* Runs with a schema, in each response-format mode, the model answering   *)
(* with any kind of text or calling t1.                                    *)
(***************************************************************************)
FormatConfigs ==
    {[BaseCfg EXCEPT !.mode = md, !.outputRetries = o, !.requestLimit = MaxRequests + 1,
                     !.toolKind = OwnExecute,
                     !.env = [BaseEnv EXCEPT
                                !.names = IF md = "tool" THEN {"t1", OutputToolName}
                                          ELSE {"t1"},
                                !.texts = TextKinds]] :
        md \in {"native", "tool", "prompted"}, o \in 1..2}

SpecFormat == InitRun(FormatConfigs) /\ [][Next]_vars

\* the step is a dispatch answered by a message without tool calls in which
\* no JSON value is present
AnswersWithoutContent ==
    /\ chatCalls' = chatCalls + 1
    /\ lastRaw'.kind = "message"
    /\ lastRaw'.calls = <<>>
    /\ lastRaw'.text \in {"empty", "nojson"}

\* C11 as stated: with a schema expected, in any mode, a response without
\* tool calls that yields no decodable structured content is recovered with a
\* feedback message and another dispatch while output-retry budget remains,
\* and fails the run only once the budget is exhausted.
C11_UndecodableRecovered ==
    [][(cfg.mode # "" /\ AnswersWithoutContent) =>
          IF outputRetryCount < maxOutputRetries
          THEN /\ outputRetryCount' = outputRetryCount + 1
               /\ messages'[Len(messages')] = "feedback"
               /\ pc' = "loop"
               /\ result' = NoResult
          ELSE pc' = "done" /\ result'.kind = "error"]_vars

(***************************************************************************)
(* Runs in which the model also calls a tool that is not registered.       *)
(***************************************************************************)
UnknownConfigs ==
    {[BaseCfg EXCEPT !.retries = r, !.requestLimit = MaxRequests + 1,
                     !.toolKind = OwnExecute,
                     !.env = [BaseEnv EXCEPT !.names = {"t1", "ghost"},
                                             !.maxCalls = MaxCalls,
                                             !.outcomes = {"ok", "modelRetry"}]] :
        r \in 0..1}

SpecUnknown == InitRun(UnknownConfigs) /\ [][Next]_vars

\* the result of a run that failed on a call of the unregistered tool name
UnknownTool(name) == [Failure("unknown_tool") EXCEPT !.tool = name]

\* C12: when the next tool call of a response names no registered tool, the
\* run fails at that call with the unknown-tool error naming it: no handler
\* is invoked, no retry counter is read or changed, the calls that follow it
\* in the response stay unexecuted, and no dispatch follows.
C12_UnknownToolFatal ==
    /\ [][(pc = "tools" /\ Head(pending) \notin Tools) =>
            /\ pc' = "done"
            /\ result' = UnknownTool(Head(pending))
            /\ execCount' = execCount
            /\ toolRetries' = toolRetries
            /\ rc' = rc
            /\ pending' = pending
            /\ messages' = messages
            /\ chatCalls' = chatCalls]_vars
    /\ [][result.err = "unknown_tool" => (chatCalls' = chatCalls /\ execCount' = execCount)]_vars
    /\ [](result.err = "unknown_tool" => pc = "done")

\* the second response called ghost and then t1: the run ended at ghost with
\* t1 of that response not executed
C12_Witness ==
    /\ pc = "done"
    /\ result = UnknownTool("ghost")
    /\ chatCalls = 2
    /\ pending = <<"ghost", "t1">>
    /\ execCount["t1"] = 1

(***************************************************************************)
(* Long runs: in Native mode the model calls t1, which returns ModelRetry,  *)
(* or gives its final answer, or the transport reports a schema mismatch;  *)
(* the budgets are below or above the iteration cap.                       *)
(***************************************************************************)
CapConfigs ==
    {[BaseCfg EXCEPT !.mode = "native", !.retries = r,
                     !.toolKind = OwnExecute,
                     !.env = [BaseEnv EXCEPT !.errs = {"schema_validation"},
                                             !.texts = {"conforming"},
                                             !.outcomes = {"modelRetry"}]] :
        r \in {1, MaxRetries}}

\* every call of the transport and of a handler returns
SpecCap == InitRun(CapConfigs) /\ [][Next]_vars /\ WF_vars(Next)

\* the error of a run that left the for loop
MaxIterationsExceeded == [Failure("max_iterations") EXCEPT !.max = maxIterations]

\* C13: every run terminates; it performs at most maxIterations = 10
\* iterations and dispatches, and a run that reached no other terminal state
\* within them fails with the error naming the cap.
C13_IterationCap ==
    /\ [](i <= maxIterations /\ chatCalls <= maxIterations)
    /\ [](result.err = "max_iterations" =>
             /\ result = MaxIterationsExceeded
             /\ i = maxIterations)
    /\ []((pc = "done" /\ i = maxIterations) => result = MaxIterationsExceeded)
    /\ <>(pc = "done")

\* ten dispatches, each recovered, and then the error naming the cap
C13_Witness ==
    /\ pc = "done"
    /\ result = MaxIterationsExceeded
    /\ chatCalls = 10
    /\ outputRetryCount + toolTurns = 10
    /\ toolTurns > 0

(***************************************************************************)
(* Runs under a tool-calls limit: t1 is called up to MaxCalls times per     *)
(* response and returns a result, an error-flagged result or ModelRetry.   *)
(***************************************************************************)
ToolLimitConfigs ==
    {[BaseCfg EXCEPT !.retries = 1, !.toolCallsLimit = l, !.requestLimit = MaxRequests + 1,
                     !.toolKind = OwnExecute,
                     !.env = [BaseEnv EXCEPT !.maxCalls = MaxCalls,
                                             !.outcomes = {"ok", "errResult", "modelRetry"}]] :
        l \in 0..MaxCalls}

SpecToolLimit == InitRun(ToolLimitConfigs) /\ [][Next]_vars

\* the result of a run stopped by the tool-calls limit
ToolCallsLimitFailure ==
    UsageLimitExceeded("tool_calls_limit", cfg.toolCallsLimit + 1, cfg.toolCallsLimit)

\* C14: successfulToolCalls grows by exactly one at each tool call whose
\* Execute returned a result without an error and does not change at a call
\* that ended in ModelRetry; with ToolCallsLimit = L > 0 the run is failed by
\* this limit exactly at the call that takes the counter above L (to L + 1),
\* so never with L counted executions, and with ToolCallsLimit = 0 never.
C14_ToolCallsCounted ==
    /\ [][\A t \in Tools :
            Invokes(t) =>
               successfulToolCalls' = successfulToolCalls
                   + (IF lastOutcome'[t] \in {"ok", "errResult"} THEN 1 ELSE 0)]_vars
    /\ [][successfulToolCalls' # successfulToolCalls => \E t \in Tools : Invokes(t)]_vars
    /\ [][(cfg.toolCallsLimit > 0 /\ successfulToolCalls' > cfg.toolCallsLimit) =>
            (pc' = "done" /\ result' = ToolCallsLimitFailure)]_vars
    /\ []((result.err = "usage_limit" /\ result.cause = "tool_calls_limit") =>
             /\ cfg.toolCallsLimit > 0
             /\ successfulToolCalls = cfg.toolCallsLimit + 1
             /\ result = ToolCallsLimitFailure)

\* under a limit of 2: four calls, one of them a ModelRetry, the fourth
\* taking the counter to 3 and ending the run
C14_Witness ==
    /\ cfg.toolCallsLimit = 2
    /\ execCount["t1"] = 4
    /\ successfulToolCalls = 3
    /\ lastOutcome["t1"] = "errResult"
    /\ pc = "done"
    /\ result = UsageLimitExceeded("tool_calls_limit", 3, 2)

\* the number of handler invocations that completed with a non-error result:
\* each left a result message, except the one at which the limit ended the run
CompletedSuccessfully ==
    CountTag(messages, "result")
        + (IF pc = "done" /\ result.err = "usage_limit" /\ result.cause = "tool_calls_limit"
              /\ lastOutcome["t1"] = "ok"
           THEN 1 ELSE 0)

\* C15 as stated: with ToolCallsLimit = L > 0, in no reachable state have
\* more than L tool handler invocations completed successfully.
C15_HardCeiling ==
    cfg.toolCallsLimit > 0 => CompletedSuccessfully <= cfg.toolCallsLimit

(***************************************************************************)
(* Runs under a completion-tokens limit, without schema and in Native      *)
(* mode; a response reports no usage or 1..MaxTokens completion tokens.    *)
(***************************************************************************)
TokensConfigs ==
    {[BaseCfg EXCEPT !.mode = md, !.outputRetries = 1, !.completionTokensLimit = c,
                     !.requestLimit = MaxRequests + 1,
                     !.toolKind = OwnExecute,
                     !.env = [BaseEnv EXCEPT
                                !.texts = IF md = "" THEN {"empty"}
                                          ELSE {"conforming", "nonconforming"},
                                !.usages = {<<FALSE, 0>>}
                                             \cup {<<TRUE, k>> : k \in 1..MaxTokens}]] :
        md \in {"", "native"}, c \in 0..MaxTokens}

SpecTokens == InitRun(TokensConfigs) /\ [][Next]_vars

\* the result of a run stopped by the completion-tokens limit at the latest response
CompletionTokensFailure ==
    UsageLimitExceeded("completion_tokens_limit", lastRaw.tokens, cfg.completionTokensLimit)

\* the latest transport response reports more completion tokens than the limit
ReportsAboveLimit == lastRaw.hasUsage /\ lastRaw.tokens > cfg.completionTokensLimit

\* C16 as stated: with CompletionTokensLimit = C > 0 the run fails with
\* UsageLimitExceeded (completion_tokens_limit) exactly when a single response
\* reports more than C completion tokens.
C16_EveryResponse ==
    [][(chatCalls' = chatCalls + 1 /\ cfg.completionTokensLimit > 0) =>
          (ReportsAboveLimit' <=> (pc' = "done" /\ result' = CompletionTokensFailure'))]_vars

\* C16: with CompletionTokensLimit = C > 0 the run fails with
\* UsageLimitExceeded (completion_tokens_limit) exactly at a dispatch whose
\* response passed the output extraction, carries a message and reports more
\* than C completion tokens; the comparison is with that response alone, so
\* the accumulated completion tokens may exceed C in a run that is not
\* failed; with CompletionTokensLimit = 0 the check never fails a run.
C16_PerResponse ==
    /\ [][(chatCalls' = chatCalls + 1 /\ cfg.completionTokensLimit > 0
             /\ lastErr' = "none" /\ lastRaw'.kind = "message") =>
            (ReportsAboveLimit' <=> (pc' = "done" /\ result' = CompletionTokensFailure'))]_vars
    /\ []((result.err = "usage_limit" /\ result.cause = "completion_tokens_limit") =>
             /\ cfg.completionTokensLimit > 0
             /\ lastErr = "none"
             /\ ReportsAboveLimit
             /\ result = CompletionTokensFailure)

\* under a limit of 2, two responses of 2 tokens each were accepted (4
\* accumulated) and the third, of 3 tokens, ended the run
C16_Witness ==
    /\ cfg.completionTokensLimit = 2
    /\ chatCalls = 3
    /\ usage.CompletionTokens = 4
    /\ pc = "done"
    /\ result = UsageLimitExceeded("completion_tokens_limit", 3, 2)

(***************************************************************************)
(* Runs whose context is cancelled.  Run never reads ctx itself: it hands  *)
(* it to Chat and to Execute.  The transport gives up a dispatch whose     *)
(* context is cancelled and returns the context's error; a handler that is *)
(* in flight when the context is cancelled returns the context's error,    *)
(* which Execute of a tool built by NewTool turns into an error-flagged    *)
(* result and an Execute function of its own returns as it is.             *)
(***************************************************************************)
CancelConfigs ==
    {[BaseCfg EXCEPT !.retries = 1, !.requestLimit = MaxRequests,
                     !.toolKind = [t \in Tools |-> IF t = "t1" THEN "typed" ELSE "raw"],
                     !.env = [BaseEnv EXCEPT !.names = Tools, !.maxCalls = MaxCalls]]}

\* what RawChat returns when its context is cancelled
CancelledRaw == RawResponse("error", "context_canceled", <<>>, "empty", "empty", "", FALSE, 0)

\* what Execute returns when the handler returned the context's error
CancelledOutcomes(kind) ==
    IF kind = "typed" THEN {validateAndExecute(TRUE, "error", TRUE)} ELSE {"execErr"}

\* a dispatch on a live context
IterateLive == ~ctxDone /\ Iterate

\* a dispatch whose context is cancelled while it is in flight, or was before
DispatchCancelled ==
    /\ pc = "loop"
    /\ ctxDone \/ (~IterationsExhausted(i) /\ ~RequestLimitReached(requestCount, cfg.requestLimit))
    /\ Assign([IterateStep(S, cfg, CancelledRaw) EXCEPT !.ctxDone = TRUE])
    /\ UNCHANGED <<cfg, xs, js, acc>>

\* a tool call whose context is cancelled while its handler is in flight
ExecuteCancelled ==
    /\ pc = "tools"
    /\ ~ctxDone
    /\ findTool(Head(pending)) # ""
    /\ \E outcome \in CancelledOutcomes(cfg.toolKind[findTool(Head(pending))]) :
          Assign([ExecuteStep(S, cfg, outcome) EXCEPT !.ctxDone = TRUE])
    /\ UNCHANGED <<cfg, xs, js, acc>>

NextCancel == IterateLive \/ DispatchCancelled \/ ExecuteTool \/ ExecuteCancelled

SpecCancel == InitRun(CancelConfigs) /\ [][NextCancel]_vars

\* C17 as stated: when the context is cancelled while a dispatch or a tool
\* handler is in flight, the run ends in Failure with the cancellation as its
\* terminal error, no tool call or dispatch is started afterwards, and no
\* result of the in-flight tool call is committed to the history.
C17_CancellationTerminal ==
    /\ [][(~ctxDone /\ ctxDone') =>
            /\ pc' = "done"
            /\ result'.err \in {"context_canceled", "tool_execution_failed"}
            /\ messages' = messages]_vars
    /\ [][ctxDone => (execCount' = execCount /\ chatCalls' = chatCalls)]_vars

(***************************************************************************)
(* Runs whose tools are built by NewTool.  A call of the wrapper is given  *)
(* arguments that pass or fail the input validation and decoding, a        *)
(* handler outcome and an output that passes or fails the output schema.   *)
(***************************************************************************)
WrapperConfigs ==
    {[BaseCfg EXCEPT !.retries = r, !.requestLimit = MaxRequests + 1] : r \in 0..1}

\* the record of a wrapper call: handler is "none" when it was not invoked
Invocation(inputOk, handler, out) ==
    [inputOk |-> inputOk,
     handler |-> IF HandlerInvoked(inputOk) THEN handler ELSE "none",
     out |-> out,
     handlerCalls |-> wrapped.handlerCalls + (IF HandlerInvoked(inputOk) THEN 1 ELSE 0)]

\* one pass of the tool-call loop on a tool built by NewTool
ExecuteWrapped ==
    /\ pc = "tools"
    /\ findTool(Head(pending)) # ""
    /\ cfg.toolKind[findTool(Head(pending))] = "typed"
    /\ \E a \in BOOLEAN, h \in HandlerOutcomes, b \in BOOLEAN :
          LET out == validateAndExecute(a, h, b)
          IN  Assign([ExecuteStep(S, cfg, out) EXCEPT !.wrapped = Invocation(a, h, out)])
    /\ UNCHANGED <<cfg, xs, js, acc>>

NextWrapper == Iterate \/ ExecuteWrapped

SpecWrapper == InitRun(WrapperConfigs) /\ [][NextWrapper]_vars

\* what the loop does with a ModelRetry returned by Execute of tool t
RetryClassification(t) ==
    IF toolRetries[t] < getEffectiveRetries(t, cfg)
    THEN /\ toolRetries'[t] = toolRetries[t] + 1
         /\ successfulToolCalls' = successfulToolCalls
         /\ messages' = Append(messages, "errresult")
         /\ result' = NoResult
    ELSE /\ pc' = "done"
         /\ result' = RetryExhausted(t, getEffectiveRetries(t, cfg))

ExpectedMaxRetries(t) ==
    CASE cfg.runRetriesSet -> cfg.runRetries
      [] ~cfg.runRetriesSet /\ cfg.toolRetries[t] # 0 -> cfg.toolRetries[t]
      [] OTHER -> cfg.retries

\* C20: the max-retries used for a tool call and shown to the handler as
\* RunContext.MaxRetries is the run-level override when one is given,
\* otherwise the tool's own value when the tool sets one (a value above 0),
\* otherwise the agent default.
C20_EffectiveRetries ==
    /\ [][\A t \in Tools :
            Invokes(t) =>
               /\ rc'.MaxRetries = ExpectedMaxRetries(t)
               /\ (lastOutcome'[t] = "modelRetry" /\ pc' # "done")
                     => toolRetries[t] < ExpectedMaxRetries(t)
               /\ (lastOutcome'[t] = "modelRetry" /\ pc' = "done")
                     => /\ toolRetries[t] = ExpectedMaxRetries(t)
                        /\ result' = RetryExhausted(t, ExpectedMaxRetries(t))]_vars

\* the run override of 2 wins over t1's own 3 and the agent's 4: the handler
\* saw MaxRetries = 2 and the third invocation was fatal
C20_Witness ==
    /\ cfg.runRetriesSet /\ cfg.runRetries = 2
    /\ cfg.toolRetries["t1"] = 3
    /\ cfg.retries = 4
    /\ rc.MaxRetries = 2
    /\ execCount["t1"] = 3
    /\ result = RetryExhausted("t1", 2)

(***************************************************************************)
(* The order of execution within a turn, read on the general runs (Spec).  *)
(***************************************************************************)
\* the id of the call the tool-call loop is at
CurrentCallId == Len(lastRaw.calls) - Len(pending) + 1

\* C21: the tool calls of one turn are executed one at a time in the order
\* of the response, each after the previous one returned; every executed call
\* that does not end the run appends exactly one tool-role message referring
\* to that call's id, so the tool messages follow the assistant message in
\* the order of the calls, and no dispatch is made while a call is pending.
C21_OrderedExecution ==
    /\ [][\A t \in Tools :
            Invokes(t) =>
               /\ pc = "tools"
               /\ t = lastRaw.calls[CurrentCallId]
               /\ pc' # "done" =>
                     /\ pending' = Tail(pending)
                     /\ Len(messages') = Len(messages) + 1
                     /\ Role(messages'[Len(messages')]) = "tool"
                     /\ toolMsgIds' = Append(toolMsgIds, CurrentCallId)]_vars
    /\ [][chatCalls' = chatCalls + 1 => (pc = "loop" /\ pending = <<>>)]_vars
    /\ []((pc \in {"tools", "loop"} /\ lastErr = "none" /\ lastRaw.calls # <<>>) =>
             LET n == Len(toolMsgIds)
                 last == Len(messages)
             IN  /\ toolMsgIds = [k \in 1..n |-> k]
                 /\ n = Len(lastRaw.calls) - Len(pending)
                 /\ messages[last - n] = "calls"
                 /\ \A k \in 1..n : Role(messages[last - n + k]) = "tool")

\* the response called t2 and then t1: both executed in that order, their
\* tool messages appended after the assistant message
C21_Witness ==
    /\ pc = "loop"
    /\ lastRaw.calls = <<"t2", "t1">>
    /\ lastOutcome["t2"] = "modelRetry" /\ lastOutcome["t1"] = "ok"
    /\ execCount = [t1 |-> 1, t2 |-> 1]
    /\ toolMsgIds = <<1, 2>>
    /\ messages = <<"prompt", "calls", "errresult", "result">>

(***************************************************************************)
(* Tool mode read on single calls of ExtractStructuredContent              *)
(* (SpecExtract).                                                          *)
(***************************************************************************)
\* the call was made in Tool mode on a response whose only call is _output
OutputCalledAlone ==
    xs.pc = "out" /\ xs.mode = "tool" /\ xs.msg.calls = <<OutputToolName>>

\* the message after the call, given its arguments are serialized as text
StrippedAndAppended ==
    MessageAfter(xs.msg, xs.out)
        = [calls |-> <<>>,
           parts |-> (IF xs.msg.text = "empty" THEN <<>> ELSE <<xs.msg.text>>)
                        \o <<xs.msg.outArgs>>]

\* C22 as stated: when _output is the only tool call, extraction returns the
\* serialization of its arguments, strips the call and appends that text as
\* the last content part after the existing ones.
C22_AlwaysReturned ==
    OutputCalledAlone =>
        /\ xs.out.err = "none"
        /\ xs.out.content = xs.msg.outArgs
        /\ StrippedAndAppended

\* C22: when _output is the only tool call, the call is stripped and the
\* serialization of its arguments is appended as the last content part, the
\* existing parts kept before it; extraction returns that text when it
\* validates against the schema and a SchemaValidationError, with empty
\* content, when it does not.
C22_OutputAlone ==
    OutputCalledAlone =>
        /\ StrippedAndAppended
        /\ IF ValidatesAgainstSchema(xs.msg.outArgs)
           THEN xs.out.err = "none" /\ xs.out.content = xs.msg.outArgs
           ELSE xs.out.err = "schema_validation" /\ xs.out.content = ""

\* a message with text and a lone _output call with conforming arguments
C22_Witness ==
    /\ OutputCalledAlone
    /\ xs.msg.text = "nojson" /\ xs.msg.outArgs = "conforming"
    /\ xs.out.content = "conforming"
    /\ MessageAfter(xs.msg, xs.out) = [calls |-> <<>>, parts |-> <<"nojson", "conforming">>]

\* what the mode extracts from a message that is left without tool calls:
\* the text (native), the arguments of a lone _output call (tool), the JSON
\* located in the text (prompted); "" when there is no such content
ExtractedText(mode, msg) ==
    CASE mode = "native" /\ msg.calls = <<>> /\ msg.text # "empty" -> msg.text
      [] mode = "tool" /\ msg.calls = <<OutputToolName>> -> msg.outArgs
      [] mode = "prompted" /\ msg.calls = <<>> -> ExtractJSONKind(msg.text)
      [] OTHER -> ""

\* C23: in each of the three modes, non-empty extracted content that does
\* not validate against the schema, in a message left without tool calls,
\* makes extraction fail with a SchemaValidationError carrying the extracted
\* text; the failure is none of tool-not-called, no-JSON-found or the
\* error-free empty content.
C23_SchemaValidationError ==
    (/\ xs.pc = "out"
     /\ ExtractedText(xs.mode, xs.msg) # ""
     /\ ~ValidatesAgainstSchema(ExtractedText(xs.mode, xs.msg)))
    => /\ xs.out.err = "schema_validation"
       /\ xs.out.raw = ExtractedText(xs.mode, xs.msg)
       /\ xs.out.content = ""
       /\ xs.out.err \notin {"tool_not_called", "no_valid_json", "none"}

\* Prompted mode: the JSON located in the text does not validate
C23_Witness ==
    /\ xs.pc = "out" /\ xs.mode = "prompted"
    /\ xs.msg.calls = <<>> /\ xs.msg.text = "nonconforming"
    /\ xs.out.err = "schema_validation" /\ xs.out.raw = "nonconforming"

(***************************************************************************)
(* StreamWithHandler.  The stream delivers up to MaxChunks chunks; a chunk *)
(* carries choices for the indexes of ChoiceIndexes in any order, each     *)
(* with or without a delta and a finish reason, and may carry usage.  To   *)
(* tell the chunks apart the delta of chunk k carries a text of its own    *)
(* per index, its finish reasons are FinishReasons[k] and its usage is k   *)
(* (0 stands for no usage).  The deltas carry text only, so that of        *)
(* Update its merge of role and text is what acts, and a choice without a  *)
(* delta carries a finish reason.  In this reading                         *)
(* acc holds the state of the call: the chunks delivered, those passed to  *)
(* onChunk, the accumulators, finishReasons, order and finalUsage.         *)
(***************************************************************************)
MaxChunks == 2

ChoiceIndexes == {0, 1}

FinishReasons == <<"stop", "length", "tool_calls">>

\* the chunks the stream may deliver as its k-th
StreamChunks(k) ==
    {[Choices |-> [n \in 1..Len(o) |->
                      [Index |-> o[n], HasDelta |-> c[n] # "finish",
                       Delta |-> [Role |-> IF k = 1 THEN "assistant" ELSE "",
                                  Content |-> IF c[n] # "finish"
                                              THEN <<TextSample[(((k - 1) * 2 + o[n]) % 4) + 1]>>
                                              ELSE <<>>,
                                  ToolCalls |-> <<>>],
                       FinishReason |-> IF c[n] # "delta" THEN FinishReasons[k] ELSE ""]],
      Usage |-> u] :
        o \in {<<>>, <<0>>, <<1>>, <<0, 1>>, <<1, 0>>},
        c \in [1..2 -> {"delta", "finish", "both"}], u \in {0, k}}

RECURSIVE AccumulateChoices(_, _)
\* the loop over chunk.Choices
AccumulateChoices(st, choices) ==
    IF choices = <<>> \/ st.pc = "error" THEN st
    ELSE LET choice == Head(choices)
             idx == choice.Index
             isNew == idx \notin DOMAIN st.accumulators
             a0 == IF isNew THEN NewMessageAccumulator ELSE st.accumulators[idx]
             a1 == IF choice.HasDelta /\ ~a0.err THEN UpdateContent(a0, choice.Delta) ELSE a0
             st1 == [st EXCEPT !.accumulators = (idx :> a1) @@ @,
                               !.order = IF isNew THEN Append(@, idx) ELSE @]
         IN  IF choice.HasDelta /\ a1.err THEN [st1 EXCEPT !.pc = "error"]
             ELSE AccumulateChoices(
                      [st1 EXCEPT !.finishReasons =
                                     IF choice.FinishReason # ""
                                     THEN (idx :> choice.FinishReason) @@ @ ELSE @],
                      Tail(choices))

\* the order in which the choices are rebuilt
ReconstructOrderAsSeen(order) == order

ReconstructOrder(order) == SortedIndexes({order[k] : k \in 1..Len(order)})

\* a call of StreamWithHandler whose stream has delivered nothing yet
StreamStart ==
    [pc |-> "stream", chunks |-> <<>>, handled |-> <<>>, accumulators |-> <<>>,
     finishReasons |-> <<>>, order |-> <<>>, finalUsage |-> 0,
     out |-> [choices |-> <<>>, usage |-> 0]]

\* stream.Next() delivers a chunk: one pass of the loop
StreamNext ==
    /\ acc.pc = "stream"
    /\ Len(acc.chunks) < MaxChunks
    /\ \E chunk \in StreamChunks(Len(acc.chunks) + 1) :
          LET st == AccumulateChoices([acc EXCEPT !.chunks = Append(@, chunk),
                                                  !.handled = Append(@, chunk)],
                                      chunk.Choices)
          IN  acc' = IF st.pc = "error" THEN st
                     ELSE [st EXCEPT !.finalUsage = IF chunk.Usage # 0 THEN chunk.Usage
                                                    ELSE @]
    /\ UNCHANGED <<runVars, xs, js>>

\* stream.Next() returns false: stream.Err() is an error or the response is
\* put together
StreamDone ==
    /\ acc.pc = "stream"
    /\ \E streamErr \in BOOLEAN :
          LET order == ReconstructOrder(acc.order)
              message(k) == Message(acc.accumulators[order[k]], "eager")
          IN  acc' = IF streamErr \/ \E k \in 1..Len(order) : message(k).err
                     THEN [acc EXCEPT !.pc = "error"]
                     ELSE [acc EXCEPT
                             !.pc = "response",
                             !.out = [choices |->
                                        [k \in 1..Len(order) |->
                                           [Index |-> order[k], Message |-> message(k),
                                            FinishReason |->
                                               IF order[k] \in DOMAIN acc.finishReasons
                                               THEN acc.finishReasons[order[k]] ELSE ""]],
                                      usage |-> acc.finalUsage]]
    /\ UNCHANGED <<runVars, xs, js>>

SpecStream ==
    /\ RunStart({BaseCfg}, "off") /\ xs = NoExtract /\ js = NoExtractJSON /\ acc = StreamStart
    /\ [][StreamNext \/ StreamDone]_vars

\* every choice the stream delivered, in delivery order
Delivered == Flatten([k \in 1..Len(acc.chunks) |-> acc.chunks[k].Choices])

RECURSIVE FedAlone(_, _, _)
\* an accumulator of its own fed the deltas of the choices with index idx
FedAlone(a, idx, choices) ==
    IF choices = <<>> THEN a
    ELSE FedAlone(IF Head(choices).Index = idx /\ Head(choices).HasDelta
                  THEN Update(a, Head(choices).Delta, "eager") ELSE a,
                  idx, Tail(choices))

RECURSIVE LastFinishReason(_, _)
\* the last non-empty finish reason among the choices with index idx
LastFinishReason(idx, choices) ==
    IF choices = <<>> THEN ""
    ELSE LET c == choices[Len(choices)]
         IN  IF c.Index = idx /\ c.FinishReason # "" THEN c.FinishReason
             ELSE LastFinishReason(idx, SubSeq(choices, 1, Len(choices) - 1))

RECURSIVE LastUsage(_)
\* the usage of the last chunk that carried one
LastUsage(chunks) ==
    IF chunks = <<>> THEN 0
    ELSE IF chunks[Len(chunks)].Usage # 0 THEN chunks[Len(chunks)].Usage
    ELSE LastUsage(SubSeq(chunks, 1, Len(chunks) - 1))

\* C24: the response of StreamWithHandler has one choice per index that
\* appeared, in ascending index order; the message of a choice is what an
\* accumulator fed that index's deltas alone returns, its finish reason the
\* last non-empty one delivered for the index, the usage that of the last
\* chunk carrying usage; onChunk received every chunk once, in delivery
\* order.
C24_MultipleChoices ==
    acc.pc = "response" =>
        LET choices == acc.out.choices
        IN  /\ {choices[k].Index : k \in 1..Len(choices)}
                  = {Delivered[k].Index : k \in 1..Len(Delivered)}
            /\ \A k \in 1..Len(choices) - 1 : choices[k].Index < choices[k + 1].Index
            /\ \A k \in 1..Len(choices) :
                  /\ choices[k].Message
                        = Message(FedAlone(NewMessageAccumulator, choices[k].Index, Delivered),
                                  "eager")
                  /\ choices[k].FinishReason = LastFinishReason(choices[k].Index, Delivered)
            /\ acc.out.usage = LastUsage(acc.chunks)
            /\ acc.handled = acc.chunks

\* two chunks, the first with choice 1 before choice 0 and with usage, the
\* second finishing choice 0 only and without usage
C24_Witness ==
    /\ acc.pc = "response"
    /\ Len(acc.chunks) = 2
    /\ Len(acc.chunks[1].Choices) = 2 /\ Len(acc.chunks[2].Choices) = 2
    /\ acc.chunks[1].Usage = 1 /\ acc.chunks[2].Usage = 0
    /\ [k \in 1..2 |-> acc.chunks[1].Choices[k].Index] = <<1, 0>>
    /\ [k \in 1..2 |-> acc.chunks[1].Choices[k].FinishReason] = <<"stop", "stop">>
    /\ [k \in 1..2 |-> acc.chunks[2].Choices[k].Index] = <<0, 1>>
    /\ [k \in 1..2 |-> acc.chunks[2].Choices[k].FinishReason] = <<"length", "">>
    /\ [k \in 1..2 |-> acc.out.choices[k].Index] = <<0, 1>>
    /\ [k \in 1..2 |-> acc.out.choices[k].Message.text] = <<<<"a", " ">>, <<"1", "a">>>>
    /\ [k \in 1..2 |-> acc.out.choices[k].FinishReason] = <<"length", "stop">>
    /\ acc.out.usage = 1

(***************************************************************************)
(* Construction.  New is given up to MaxOptions WithTools options, each    *)
(* with up to MaxOptions tools; a tool is known by its name.  In this      *)
(* reading xs holds the options and what New returned.                     *)
(***************************************************************************)
MaxOptions == 2

RECURSIVE WithToolsUnchecked(_, _)
\* the option WithTools(tools...) applied to the agent a; err names the
\* duplicate, "" is no error
WithToolsUnchecked(a, tools) ==
    IF tools = <<>> THEN a
    ELSE WithToolsUnchecked([a EXCEPT !.toolMap = @ \cup {Head(tools)},
                                      !.toolList = Append(@, Head(tools))],
                            Tail(tools))

RECURSIVE WithTools(_, _)
WithTools(a, tools) ==
    IF tools = <<>> THEN a
    ELSE IF Head(tools) \in a.toolMap THEN [a EXCEPT !.err = Head(tools)]
    ELSE WithTools([a EXCEPT !.toolMap = @ \cup {Head(tools)},
                             !.toolList = Append(@, Head(tools))],
                   Tail(tools))

RECURSIVE ApplyOptions(_, _)
\* the loop of New over its options
ApplyOptions(a, opts) ==
    IF opts = <<>> THEN a
    ELSE IF WithTools(a, Head(opts)).err # ""
         THEN [nil |-> TRUE, toolMap |-> {}, toolList |-> <<>>,
               err |-> WithTools(a, Head(opts)).err]
    ELSE ApplyOptions(WithTools(a, Head(opts)), Tail(opts))

\* New(client, opts...): the agent, or nil and the error
New(opts) == ApplyOptions([nil |-> FALSE, toolMap |-> {}, toolList |-> <<>>, err |-> ""], opts)

Construct ==
    /\ xs.pc = "new"
    /\ xs' = [xs EXCEPT !.pc = "agent", !.out = New(xs.opts)]
    /\ UNCHANGED <<runVars, js, acc>>

SpecNew ==
    /\ RunStart({BaseCfg}, "off") /\ js = NoExtractJSON /\ acc = NoAccumulator
    /\ \E opts \in CallSeqs(CallSeqs(Tools, 0, MaxOptions), 0, MaxOptions) :
          xs = [pc |-> "new", opts |-> opts, out |-> New(<<>>)]
    /\ [][Construct]_vars

\* C25: New returns the duplicate-tool-name error and no agent exactly when
\* two of the tools registered, in one WithTools option or across several,
\* share a name; an agent that is returned has one tool per name, so no
\* duplicate is left to be found when a tool is called.
C25_DuplicateRejected ==
    xs.pc = "agent" =>
        LET registered == Flatten(xs.opts)
            duplicate == \E k, n \in 1..Len(registered) : k < n /\ registered[k] = registered[n]
        IN  IF duplicate
            THEN /\ xs.out.nil
                 /\ xs.out.err \in Tools
                 /\ Occurrences(registered, xs.out.err) > 1
            ELSE /\ ~xs.out.nil /\ xs.out.err = ""
                 /\ xs.out.toolList = registered
                 /\ xs.out.toolMap = {registered[k] : k \in 1..Len(registered)}

\* the same name registered by two different options
C25_Witness ==
    /\ xs.pc = "agent"
    /\ xs.opts = <<<<"t1", "t2">>, <<"t1">>>>
    /\ xs.out.nil /\ xs.out.err = "t1"

\* the latest dispatch brought a response that was appended to the history
ResponseAccepted ==
    /\ chatCalls' = chatCalls + 1
    /\ Len(messages') = Len(messages) + 1
    /\ messages'[Len(messages')] \in {"assistant", "calls"}

\* C26: the usage of a run starts at zero and changes only when a response
\* is accepted into the history, by exactly the prompt, completion and total
\* tokens that response reports, or not at all when the response carries no
\* usage; so the usage returned on Success is the component-wise sum over the
\* accepted responses.
C26_UsageSum ==
    /\ [](chatCalls = 0 => usage = [PromptTokens |-> 0, CompletionTokens |-> 0,
                                    TotalTokens |-> 0])
    /\ [][usage' =
            IF ResponseAccepted /\ lastRaw'.hasUsage
            THEN [PromptTokens |-> usage.PromptTokens + ReportedUsage(lastRaw'.tokens).PromptTokens,
                  CompletionTokens |-> usage.CompletionTokens + lastRaw'.tokens,
                  TotalTokens |-> usage.TotalTokens + ReportedUsage(lastRaw'.tokens).TotalTokens]
            ELSE usage]_vars

\* Success after a response of 2 completion tokens calling a tool, one
\* rejected by the extraction, and a final one of 3
C26_Witness ==
    /\ pc = "done" /\ result = Success
    /\ chatCalls = 3 /\ outputRetryCount = 1
    /\ messages = <<"prompt", "calls", "result", "feedback", "assistant">>
    /\ usage = [PromptTokens |-> 12, CompletionTokens |-> 5, TotalTokens |-> 17]

(***************************************************************************)
(* Continuation.  A run that succeeded is followed by another run of the   *)
(* same agent, seeded with WithMessages(result.Messages), with or without  *)
(* a prompt.  The first run has a seed of up to MaxSeed messages of the    *)
(* caller's; the model calls t1 or answers in text, t1 returns a result or *)
(* ModelRetry.  Only a first run is followed.                              *)
(***************************************************************************)
\* the locals of Run before the loop, in a run without the seed
RunEntryUnseeded(c) ==
    [pc |-> "loop", i |-> 0, requestCount |-> 0, successfulToolCalls |-> 0,
     outputRetryCount |-> 0, toolRetries |-> [t \in Tools |-> 0],
     messages |-> IF c.prompt THEN <<"prompt">> ELSE <<>>,
     pending |-> <<>>, rc |-> [Retry |-> 0, MaxRetries |-> 0],
     usage |-> [PromptTokens |-> 0, CompletionTokens |-> 0, TotalTokens |-> 0],
     result |-> NoResult, chatCalls |-> 0, execCount |-> [t \in Tools |-> 0],
     lastOutcome |-> [t \in Tools |-> "none"], lastRetry |-> [t \in Tools |-> 0],
     toolTurns |-> 0, lastErr |-> "none", lastRaw |-> NoRawResponse, ctxDone |-> FALSE,
     wrapped |-> NoInvocation, toolMsgIds |-> <<>>]

\* the locals of Run before the loop: rc.Messages is the seed, then the
\* prompt when it is not empty
RunEntry(c) ==
    [RunEntryUnseeded(c) EXCEPT !.messages = c.seed \o @]

RunAgain ==
    /\ pc = "done" /\ result.kind = "success"
    /\ \A k \in 1..Len(cfg.seed) : cfg.seed[k] = "seed"
    /\ \E p \in BOOLEAN :
          /\ cfg' = [cfg EXCEPT !.seed = messages, !.prompt = p]
          /\ Assign(RunEntry([cfg EXCEPT !.seed = messages, !.prompt = p]))
    /\ UNCHANGED <<xs, js, acc>>

SpecContinue ==
    /\ InitRun({[BaseCfg EXCEPT !.retries = 1, !.requestLimit = MaxRequests,
                                !.seed = [k \in 1..n |-> "seed"], !.prompt = p,
                                !.toolKind = OwnExecute,
                                !.env = [BaseEnv EXCEPT !.outcomes = {"ok", "modelRetry"}]] :
                    n \in 0..MaxSeed, p \in BOOLEAN})
    /\ [][Next \/ RunAgain]_vars

\* the messages of the history that follow the seed
AfterSeed == SubSeq(messages, Len(cfg.seed) + 1, Len(messages))

\* the messages a run produces
RunMessages == {"calls", "assistant", "result", "errresult", "feedback"}

\* C27 as stated: the history returned by a successful run is the seed, then
\* the prompt as a user message, then the messages produced in the run.
C27_PromptAlways ==
    result.kind = "success" =>
        /\ Len(messages) >= Len(cfg.seed)
        /\ SubSeq(messages, 1, Len(cfg.seed)) = cfg.seed
        /\ Len(AfterSeed) > 1
        /\ AfterSeed[1] = "prompt" /\ Role(AfterSeed[1]) = "user"
        /\ \A k \in 2..Len(AfterSeed) : AfterSeed[k] \in RunMessages

\* C27: the history of a run starts with its seed, unmodified, followed by
\* the prompt as a user message when the prompt is not empty and by nothing
\* when it is empty, and grows only at its end by the messages the run
\* produces; this holds as well of a run seeded with the history that a
\* successful run returned, so that history is a prefix of the following
\* run's history.
C27_SeedIsPrefix ==
    /\ [](/\ Len(messages) >= Len(cfg.seed)
          /\ SubSeq(messages, 1, Len(cfg.seed)) = cfg.seed
          /\ Len(AfterSeed) >= (IF cfg.prompt THEN 1 ELSE 0)
          /\ \A k \in 1..Len(AfterSeed) :
                IF k = 1 /\ cfg.prompt
                THEN AfterSeed[k] = "prompt" /\ Role(AfterSeed[k]) = "user"
                ELSE AfterSeed[k] \in RunMessages
          /\ result.kind = "success" => messages[Len(messages)] = "assistant")
    /\ [][/\ Len(messages') >= Len(messages)
          /\ SubSeq(messages', 1, Len(messages)) = messages
          /\ cfg' # cfg => (result.kind = "success" /\ cfg'.seed = messages)]_vars

\* a run with a tool call, seeded with the history a first run returned
C27_Witness ==
    /\ result.kind = "success"
    /\ cfg.seed = <<"prompt", "assistant">>
    /\ messages = <<"prompt", "assistant", "prompt", "calls", "result", "assistant">>

(***************************************************************************)
(* Concurrent runs.  Two calls of Run on one agent are under way at once   *)
(* and their steps interleave in any order.  Each call has its own rc and  *)
(* its own local counters; the agent is only read.  In this reading xs     *)
(* holds, per run, the locals of Run and the responses and tool outcomes   *)
(* the run has received so far.  The agent is in Native mode with one tool *)
(* that returns a result or ModelRetry; the model calls the tool or        *)
(* answers without content.                                                *)
(***************************************************************************)
Runs == {1, 2}

\* the locals of every run after run k took a step to the locals n, were the
\* counters kept in one place for all runs
StoreLocalsShared(all, k, n) ==
    [r \in DOMAIN all |->
        IF r = k THEN n
        ELSE [all[r] EXCEPT !.requestCount = n.requestCount,
                            !.successfulToolCalls = n.successfulToolCalls,
                            !.outputRetryCount = n.outputRetryCount,
                            !.toolRetries = n.toolRetries,
                            !.usage = n.usage]]

\* the locals of every run after run k took a step to the locals n
StoreLocals(all, k, n) == [all EXCEPT ![k] = n]

IterateRun ==
    /\ xs.pc = "runs"
    /\ \E k \in Runs, raw \in RawResponses(cfg.env) :
          /\ xs.run[k].pc = "loop"
          /\ xs' = [xs EXCEPT
                      !.run = StoreLocals(@, k, IterateStep(xs.run[k], cfg, raw)),
                      !.inputs[k] = Append(@, [isResponse |-> TRUE, raw |-> raw,
                                               outcome |-> "none"])]
    /\ UNCHANGED <<runVars, js, acc>>

ExecuteRun ==
    /\ xs.pc = "runs"
    /\ \E k \in Runs :
          /\ xs.run[k].pc = "tools"
          /\ \E outcome \in CallOutcomes(cfg, Head(xs.run[k].pending)) :
                xs' = [xs EXCEPT
                         !.run = StoreLocals(@, k, ExecuteStep(xs.run[k], cfg, outcome)),
                         !.inputs[k] = Append(@, [isResponse |-> FALSE,
                                                  raw |-> NoRawResponse,
                                                  outcome |-> outcome])]
    /\ UNCHANGED <<runVars, js, acc>>

SpecConcurrent ==
    /\ RunStart({[BaseCfg EXCEPT !.mode = "native", !.retries = 1, !.outputRetries = 1,
                                 !.requestLimit = MaxRequests, !.toolKind = OwnExecute,
                                 !.env = [BaseEnv EXCEPT
                                            !.texts = {"empty"},
                                            !.outcomes = {"ok", "modelRetry"}]]},
                "off")
    /\ xs = [pc |-> "runs", run |-> [k \in Runs |-> RunEntry(cfg)],
             inputs |-> [k \in Runs |-> <<>>]]
    /\ js = NoExtractJSON /\ acc = NoAccumulator
    /\ [][IterateRun \/ ExecuteRun]_vars

RECURSIVE Alone(_, _)
\* the locals of a run that receives the inputs ins with no other run about
Alone(c, ins) ==
    IF ins = <<>> THEN RunEntry(c)
    ELSE LET before == Alone(c, SubSeq(ins, 1, Len(ins) - 1))
             last == ins[Len(ins)]
         IN  IF last.isResponse THEN IterateStep(before, c, last.raw)
             ELSE ExecuteStep(before, c, last.outcome)

CallsOtherToolsOnly ==
    /\ lastRaw.kind = "message"
    /\ Len(lastRaw.calls) > 0
    /\ ~HasOutputCall(lastRaw.calls)

\* C29: in every response-format mode with a schema, a dispatch answered by
\* a response that carries tool calls none of which is _output gives no
\* extraction error, and the run goes on to execute those tool calls.
C29_ToolCallsPassExtraction ==
    [][(chatCalls' = chatCalls + 1 /\ CallsOtherToolsOnly') =>
          /\ lastErr' = "none"
          /\ pc' = "tools"
          /\ pending' = lastRaw'.calls
          /\ outputRetryCount' = outputRetryCount]_vars

\* C30: in Tool mode, for a message with one or more tool calls none of
\* which is _output, extraction returns empty content and no error and
\* leaves the message as it was: the same tool calls, the same content parts.
C30_OtherToolsUntouched ==
    (/\ xs.pc = "out" /\ xs.mode = "tool"
     /\ Len(xs.msg.calls) > 0
     /\ \A k \in 1..Len(xs.msg.calls) : xs.msg.calls[k] # OutputToolName)
    => /\ xs.out.content = ""
       /\ xs.out.err = "none"
       /\ MessageAfter(xs.msg, xs.out)
             = [calls |-> xs.msg.calls,
                parts |-> IF xs.msg.text = "empty" THEN <<>> ELSE <<xs.msg.text>>]

\* two calls of other tools and some text
C30_Witness ==
    /\ xs.pc = "out" /\ xs.mode = "tool"
    /\ xs.msg.calls = <<"t1", "t2">> /\ xs.msg.text = "nojson"
    /\ xs.out.content = "" /\ xs.out.err = "none"
    /\ MessageAfter(xs.msg, xs.out) = [calls |-> <<"t1", "t2">>, parts |-> <<"nojson">>]

(***************************************************************************)
(* RunContext.LastAttempt, as the handler of a tool call sees it: the loop *)
(* stores the tool's retry count and effective budget in rc before Execute. *)
(***************************************************************************)
LastAttempt(r) == r.Retry >= r.MaxRetries

\* the step is the execution of a call of tool t
Executes(t) == execCount'[t] = execCount[t] + 1

\* C31: LastAttempt() is true exactly when Retry >= MaxRetries, where Retry
\* and MaxRetries are the called tool's retry count and effective budget; a
\* run fails with tool-retry exhaustion exactly when a tool call returns
\* ModelRetry from an invocation in which LastAttempt() was true; a
\* ModelRetry returned while LastAttempt() was false does not end the run,
\* increments that tool's counter by one and appends an error-flagged tool
\* result.
C31_LastAttemptDecides ==
    [][\A t \in Tools : Executes(t) =>
          /\ rc'.Retry = toolRetries[t]
          /\ rc'.MaxRetries = getEffectiveRetries(t, cfg)
          /\ LastAttempt(rc') <=> toolRetries[t] >= getEffectiveRetries(t, cfg)
          /\ (pc' = "done" /\ result'.err = "tool_retries")
                <=> (lastOutcome'[t] = "modelRetry" /\ LastAttempt(rc'))
          /\ (lastOutcome'[t] = "modelRetry" /\ ~LastAttempt(rc')) =>
                /\ pc' # "done"
                /\ result' = result
                /\ toolRetries' = [toolRetries EXCEPT ![t] = @ + 1]
                /\ messages' = Append(messages, "errresult")]_vars

\* a ModelRetry on the last attempt has ended the run after a recovered one
C31_Witness ==
    /\ pc = "done"
    /\ result = RetryExhausted("t1", 1)
    /\ lastOutcome["t1"] = "modelRetry"
    /\ LastAttempt(rc)
    /\ rc.Retry = 1
    /\ toolRetries["t1"] = 1
    /\ execCount["t1"] >= 2

(***************************************************************************)
(* Runs under a tool-calls limit whose tools are built by NewTool.          *)
(***************************************************************************)
SpecWrapperLimit ==
    /\ InitRun({[BaseCfg EXCEPT !.retries = 1, !.toolCallsLimit = l,
                                !.requestLimit = MaxRequests,
                                !.env = [BaseEnv EXCEPT !.maxCalls = MaxCalls]] :
                   l \in 0..MaxCalls})
    /\ [][NextWrapper]_vars

\* the wrapper call of the step ended in an error-flagged result: the handler
\* failed with something other than a ModelRetry, or its output did not
\* pass the output schema
ErrorFlaggedCall ==
    /\ wrapped'.handlerCalls = wrapped.handlerCalls + 1
    /\ wrapped'.out = "errResult"

ToolNames == Tools \cup {OutputToolName}

\* the zero ToolDefinition, which fills a spare slot
NoDefinition == [Name |-> "", InputSchema |-> ""]

\* GetToolDefinitions(a.toolList): the definition of each tool, in order
GetToolDefinitions(toolList) ==
    [k \in 1..Len(toolList) |-> [Name |-> toolList[k], InputSchema |-> "input"]]

\* BuildOutputToolDefinition(rf): rf.Schema is the target schema
BuildOutputToolDefinition == [Name |-> OutputToolName, InputSchema |-> "target"]

\* append(s, v) on the slice s = [arr, len]: in place when there is room
AppendSlice(s, v) ==
    IF s.len < Len(s.arr)
    THEN [arr |-> [s.arr EXCEPT ![s.len + 1] = v], len |-> s.len + 1]
    ELSE [arr |-> Append(SubSeq(s.arr, 1, s.len), v), len |-> s.len + 1]

\* ApplyResponseFormat(params); mode "" is an agent without response format,
\* whose rf.Schema is nil
ApplyResponseFormat(params) ==
    IF params.mode = "" THEN params
    ELSE IF params.mode = "tool"
    THEN [params EXCEPT !.Tools = AppendSlice(@, BuildOutputToolDefinition)]
    ELSE IF params.mode = "prompted"
    THEN [params EXCEPT !.SystemPrompt = Append(@, "suffix")]
    ELSE params

\* one iteration of Run as far as the call of the transport
Dispatch ==
    /\ xs.pc = "requests"
    /\ xs.n < MaxRequests
    /\ LET params == ApplyResponseFormat([mode |-> xs.mode, SystemPrompt |-> <<"system">>,
                                          Tools |-> [arr |-> xs.arr, len |-> xs.len]])
       IN  xs' = [xs EXCEPT !.n = @ + 1,
                            !.arr = IF params.Tools.len <= Len(@) THEN params.Tools.arr ELSE @,
                            !.sent = SubSeq(params.Tools.arr, 1, params.Tools.len),
                            !.prompt = params.SystemPrompt]
    /\ UNCHANGED <<runVars, js, acc>>

SpecRequest ==
    /\ RunStart({BaseCfg}, "off") /\ js = NoExtractJSON /\ acc = NoAccumulator
    /\ \E ts \in CallSeqs(ToolNames, 0, 2), mode \in {"", "native", "tool", "prompted"},
          spare \in 0..1 :
          /\ ~New(<<ts>>).nil
          /\ xs = [pc |-> "requests", mode |-> mode, tools |-> New(<<ts>>).toolList,
                   arr |-> GetToolDefinitions(New(<<ts>>).toolList)
                              \o [k \in 1..spare |-> NoDefinition],
                   len |-> Len(ts), n |-> 0, sent |-> <<>>, prompt |-> <<>>]
    /\ [][Dispatch]_vars

\* C34: in every request dispatched during a run the tool-definition names
\* are pairwise distinct; in Tool mode with a schema the request contains
\* exactly one definition named _output, whose input schema is the target
\* schema, on every iteration of the run, and in native and prompted mode no
\* tool definition is added.
C34_DefinitionsDistinct ==
    (xs.pc = "requests" /\ xs.n > 0) =>
        /\ \A k, n \in 1..Len(xs.sent) : k # n => xs.sent[k].Name # xs.sent[n].Name
        /\ xs.mode = "tool" =>
              /\ Cardinality({k \in 1..Len(xs.sent) : xs.sent[k].Name = OutputToolName}) = 1
              /\ \A k \in 1..Len(xs.sent) :
                    xs.sent[k].Name = OutputToolName => xs.sent[k].InputSchema = "target"
        /\ xs.mode # "tool" => xs.sent = GetToolDefinitions(xs.tools)

\* depth counting over s, as a function of the number of characters read:
\* the depth, whether the position is inside a double-quoted string, and
\* whether the character read last was a backslash inside a string
Counting(s, open, close) ==
    LET st[n \in 0..Len(s)] ==
            IF n = 0 THEN [depth |-> 0, str |-> FALSE, esc |-> FALSE]
            ELSE LET p == st[n - 1]
                     c == s[n]
                 IN  IF p.esc THEN [p EXCEPT !.esc = FALSE]
                     ELSE IF p.str
                          THEN IF c = "\\" THEN [p EXCEPT !.esc = TRUE]
                               ELSE IF c = "\"" THEN [p EXCEPT !.str = FALSE]
                               ELSE p
                     ELSE IF c = "\"" THEN [p EXCEPT !.str = TRUE]
                     ELSE IF c = open THEN [p EXCEPT !.depth = @ + 1]
                     ELSE IF c = close THEN [p EXCEPT !.depth = @ - 1]
                     ELSE p
    IN  st

\* the positions of s at which a close delimiter outside strings brings the
\* depth back to zero
MatchingCloses(s, open, close) ==
    {n \in 1..Len(s) : /\ s[n] = close
                       /\ ~Counting(s, open, close)[n - 1].str
                       /\ ~Counting(s, open, close)[n - 1].esc
                       /\ Counting(s, open, close)[n].depth = 0}

\* the candidates of ExtractJSON in the order of the claim: the trimmed text,
\* the trimmed content of the first fenced block, the span from the first
\* brace or bracket to its matching close delimiter
Candidates(text) ==
    LET t == TrimSpace(text)
        fences == {k \in 1..Len(t) : t[k] = Fence}
        f1 == SetMin(fences)
        f2 == SetMin(fences \ {f1})
        tagged == f1 + 1 <= Len(t) /\ t[f1 + 1] = "j"
        opens == {k \in 1..Len(t) : t[k] \in {"{", "["}}
        first == SetMin(opens)
        rest == SubSeq(t, first, Len(t))
        closes == MatchingCloses(rest, t[first], IF t[first] = "{" THEN "}" ELSE "]")
    IN  <<t>>
        \o (IF Cardinality(fences) >= 2
            THEN <<TrimSpace(SubSeq(t, f1 + (IF tagged THEN 2 ELSE 1), f2 - 1))>> ELSE <<>>)
        \o (IF opens # {} /\ closes # {}
            THEN <<SubSeq(rest, 1, SetMin(closes))>> ELSE <<>>)

\* a is a contiguous part of b
IsPartOf(a, b) == \E k \in 0..(Len(b) - Len(a)) : SubSeq(b, k + 1, k + Len(a)) = a

\* C35: ExtractJSON tries, in this order, the trimmed text as a whole, the
\* content of the first fenced code block, and the span from the first brace
\* or bracket to its matching close delimiter found by depth counting that
\* ignores delimiters inside double-quoted strings and treats a backslash
\* inside a string as escaping the next character; it returns the first
\* candidate that is valid JSON, the returned text is always valid JSON and
\* a contiguous part of the input, and when no candidate is valid it returns
\* an error with empty text.
C35_FirstValidCandidate ==
    js.pc = "out" =>
        LET cs == Candidates(js.text)
            valid == {k \in 1..Len(cs) : Decode(cs[k]).ok}
        IN  IF valid = {}
            THEN js.err /\ js.out = <<>>
            ELSE /\ ~js.err
                 /\ js.out = cs[SetMin(valid)]
                 /\ Decode(js.out).ok
                 /\ IsPartOf(js.out, js.text)

\* a fence in the prose and one inside a string of the object: the first
\* block is not JSON and the span from the brace is returned
C35_Witness ==
    /\ js.pc = "out"
    /\ js.text = <<Fence>> \o Object(Quoted(<<Fence>>))
    /\ Len(Candidates(js.text)) = 3
    /\ ~Decode(Candidates(js.text)[1]).ok
    /\ ~Decode(Candidates(js.text)[2]).ok
    /\ ~js.err
    /\ js.out = Object(Quoted(<<Fence>>))

(***************************************************************************)
(* One accumulator fed deltas for several tool calls.  Each delta carries  *)
(* one fragment for the call of one index, and the id of the call when it  *)
(* is the first delta for that index.  In this reading acc holds the       *)
(* version, the fragments fed so far, the accumulator and what Message     *)
(* returned.                                                               *)
(***************************************************************************)
CallIndexes == {0, 1, 2}

CallId == [idx \in CallIndexes |-> IF idx = 0 THEN "call_0"
                                   ELSE IF idx = 1 THEN "call_1" ELSE "call_2"]

\* the argument fragments: none, white space, an object, an unfinished
\* object, a number
Fragments == {<<>>, <<" ">>, <<"{", "}">>, <<"{">>, <<"1">>}

FeedIndex ==
    /\ acc.pc = "feed"
    /\ Len(acc.fed) <= MaxChunks
    /\ \E idx \in CallIndexes, f \in Fragments :
          LET first == \A k \in 1..Len(acc.fed) : acc.fed[k].idx # idx
              delta == [Role |-> IF acc.fed = <<>> THEN "assistant" ELSE "",
                        Content |-> <<>>,
                        ToolCalls |-> <<[Index |-> idx,
                                         ID |-> IF first THEN CallId[idx] ELSE "",
                                         FunctionName |-> IF first THEN "f" ELSE "",
                                         Arguments |-> f]>>]
          IN  acc' = [acc EXCEPT !.ma = Update(@, delta, acc.version),
                                 !.fed = Append(@, [idx |-> idx, f |-> f])]
    /\ UNCHANGED <<runVars, xs, js>>

FinishIndexes ==
    /\ acc.pc = "feed"
    /\ acc' = [acc EXCEPT !.pc = "out", !.out = Message(acc.ma, acc.version)]
    /\ UNCHANGED <<runVars, xs, js>>

SpecIndexes ==
    /\ RunStart({BaseCfg}, "off") /\ xs = NoExtract /\ js = NoExtractJSON
    /\ \E version \in {"lazy", "eager"} :
          acc = [pc |-> "feed", version |-> version, fed |-> <<>>,
                 ma |-> NewMessageAccumulator, out |-> NoMessage]
    /\ [][FeedIndex \/ FinishIndexes]_vars

RECURSIVE ArgumentText(_, _)
\* the argument text the fragments fed give the call of index idx
ArgumentText(fed, idx) ==
    IF fed = <<>> THEN <<>>
    ELSE (IF Head(fed).idx = idx THEN Head(fed).f ELSE <<>>) \o ArgumentText(Tail(fed), idx)

\* the indexes that appeared in the deltas
SeenIndexes == {acc.fed[k].idx : k \in 1..Len(acc.fed)}

\* the call of index idx received no argument text, or white space only
Blank(idx) == \A k \in 1..Len(ArgumentText(acc.fed, idx)) : ArgumentText(acc.fed, idx)[k] = " "

\* C36: Message() emits the tool calls in ascending order of tool-call index
\* whatever order the indexes first appeared in, and an index that received
\* no argument text, or only white space, yields an empty argument map and
\* no error: Message fails only when the argument text of some index is
\* neither blank nor the encoding of an object.
C36_AscendingIndexes ==
    acc.pc = "out" =>
        /\ acc.out.err =>
              \E idx \in SeenIndexes :
                  ~Blank(idx) /\ UnmarshalMap(TrimSpace(ArgumentText(acc.fed, idx))).err
        /\ ~acc.out.err =>
              /\ Len(acc.out.calls) = Cardinality(SeenIndexes)
              /\ {acc.out.calls[k].id : k \in 1..Len(acc.out.calls)}
                    = {CallId[idx] : idx \in SeenIndexes}
              /\ \A k, n \in 1..Len(acc.out.calls) :
                    \A a, b \in SeenIndexes :
                        (k < n /\ acc.out.calls[k].id = CallId[a]
                               /\ acc.out.calls[n].id = CallId[b]) => a < b
              /\ \A k \in 1..Len(acc.out.calls) : \A idx \in SeenIndexes :
                    (acc.out.calls[k].id = CallId[idx] /\ Blank(idx))
                        => acc.out.calls[k].args = <<"{", "}">>

\* index 2 appeared first and got no argument text, index 0 appeared last
C36_Witness ==
    /\ acc.pc = "out"
    /\ acc.fed = <<[idx |-> 2, f |-> <<>>], [idx |-> 1, f |-> <<" ">>],
                   [idx |-> 0, f |-> <<"{", "}">>]>>
    /\ ~acc.out.err
    /\ [k \in 1..3 |-> acc.out.calls[k].id] = <<"call_0", "call_1", "call_2">>
    /\ acc.out.calls[3].args = <<"{", "}">>
    /\ acc.out.calls[2].args = <<"{", "}">>

\* C37: once a message has been appended to the run history it is never
\* modified, removed or reordered for the rest of the run: every step leaves
\* the history as a prefix of the new one.  The only mutation of a message
\* is the Tool-mode output extraction on the assistant message, and it
\* happens before the append: the assistant message a dispatch appends is
\* the response message as the extraction left it.
C37_AppendOnly ==
    /\ [][/\ Len(messages') >= Len(messages)
          /\ SubSeq(messages', 1, Len(messages)) = messages]_vars
    /\ [][(chatCalls' = chatCalls + 1 /\ lastErr' = "none" /\ messages' # messages) =>
            messages'[Len(messages) + 1]
               = IF MessageAfter(lastRaw', ExtractStructuredContent(cfg.mode, lastRaw')).calls
                       = <<>>
                 THEN "assistant" ELSE "calls"]_vars

\* Tool mode: after a tool turn the response called _output alone and went
\* into the history as a message without tool calls
C37_Witness ==
    /\ pc = "done"
    /\ result = Success
    /\ cfg.mode = "tool"
    /\ lastRaw.calls = <<OutputToolName>>
    /\ messages = <<"prompt", "calls", "result", "assistant">>

(***************************************************************************)
(* Runs in Native mode in which every kind of output failure can follow    *)
(* any other, among tool turns: the transport reports a validation error,  *)
(* the content does not decode into the output type, or the answer has no  *)
(* content.                                                                *)
(***************************************************************************)
SpecOutputKinds ==
    /\ InitRun({[BaseCfg EXCEPT !.mode = "native", !.outputRetries = o, !.retries = r,
                                !.toolKind = OwnExecute, !.requestLimit = MaxRequests + 2,
                                !.env = [BaseEnv EXCEPT
                                            !.errs = ValidationErrs,
                                            !.texts = {"empty", "undecodable", "conforming"}]] :
                   o \in 0..2, r \in {0, 1, 3}})
    /\ [][Next]_vars

\* the kind of output failure the dispatch of the step met, "" for none
OutputFailure ==
    IF chatCalls' # chatCalls + 1 THEN ""
    ELSE IF lastErr' \in ValidationErrs THEN "transport"
    ELSE IF lastErr' # "none" \/ lastRaw'.calls # <<>> THEN ""
    ELSE IF lastRaw'.text = "undecodable" THEN "undecodable"
    ELSE IF lastRaw'.text = "empty" THEN "missing"
    ELSE ""

\* the effective output budget in the words of the claim
OutputBudget == IF cfg.outputRetries > 0 THEN cfg.outputRetries ELSE cfg.retries

\* C38: the output-retry counter is one counter for the whole run, shared by
\* all kinds of output failure (validation errors of the transport,
\* undecodable structured content, missing structured content) and never
\* reset: a failure of any kind is recovered, adding one to the counter and
\* one feedback message, exactly when the counter is below the effective
\* output budget, which is outputRetries when that is greater than zero and
\* retries otherwise; so the recoveries of a run never exceed that budget.
C38_SharedOutputCounter ==
    /\ [](/\ outputRetryCount <= OutputBudget
          /\ CountTag(messages, "feedback") = outputRetryCount)
    /\ [][/\ outputRetryCount' >= outputRetryCount
          /\ OutputFailure # "" =>
                IF outputRetryCount < OutputBudget
                THEN /\ outputRetryCount' = outputRetryCount + 1
                     /\ pc' = "loop"
                     /\ messages'[Len(messages')] = "feedback"
                ELSE /\ outputRetryCount' = outputRetryCount
                     /\ pc' = "done" /\ result'.kind = "error"
                     /\ result'.max = OutputBudget
          /\ OutputFailure = "" => outputRetryCount' = outputRetryCount]_vars

\* budget 2: a validation error of the transport is recovered, then an
\* answer that is rejected, and the undecodable content that follows ends
\* the run
C38_Witness ==
    /\ pc = "done"
    /\ cfg.outputRetries = 2
    /\ outputRetryCount = 2
    /\ result.err = "output_unmarshal" /\ result.max = 2
    /\ lastRaw.text = "undecodable"
    /\ messages = <<"prompt", "feedback", "assistant", "feedback", "assistant">>

(***************************************************************************)
(* Two runs seeded with one history value.  WithMessages stores the        *)
(* caller's slice and Run starts rc.Messages from it, so the history of a  *)
(* run is a length over the caller's backing array until an append finds   *)
(* no room and moves it to an array of its own.  A message is known by the *)
(* run that appended it and its position among that run's messages.  In    *)
(* this reading xs holds the length of the seed, the caller's backing      *)
(* array, and for each run its slice, whether the slice is still over the  *)
(* caller's array, and the number of messages it has appended.             *)
(***************************************************************************)
\* rc.Messages of run k as a slice [arr, len]
RunSlice(k) ==
    [arr |-> IF xs.run[k].shared THEN xs.arr ELSE xs.run[k].arr, len |-> xs.run[k].len]

\* rc.Messages = append(rc.Messages, message) in run k
AppendRun ==
    /\ xs.pc = "seeded"
    /\ \E k \in Runs :
          /\ xs.run[k].n <= MaxRequests
          /\ LET s == RunSlice(k)
                 inPlace == xs.run[k].shared /\ s.len < Len(s.arr)
                 t == AppendSlice(s, [run |-> k, n |-> xs.run[k].n + 1])
             IN  xs' = [xs EXCEPT !.arr = IF inPlace THEN t.arr ELSE @,
                                  !.run[k] = [shared |-> inPlace,
                                              arr |-> IF inPlace THEN <<>> ELSE t.arr,
                                              len |-> t.len,
                                              n |-> xs.run[k].n + 1]]
    /\ UNCHANGED <<runVars, js, acc>>

SpecSeed ==
    /\ RunStart({BaseCfg}, "off") /\ js = NoExtractJSON /\ acc = NoAccumulator
    /\ \E n \in 0..MaxSeed, spare \in 0..2 :
          xs = [pc |-> "seeded", seedLen |-> n,
                arr |-> [k \in 1..(n + spare) |-> [run |-> 0, n |-> IF k <= n THEN k ELSE 0]],
                run |-> [k \in Runs |-> [shared |-> TRUE, arr |-> <<>>, len |-> n, n |-> 0]]]
    /\ [][AppendRun]_vars

\* the history run k would return now
RunHistory(k) == SubSeq(RunSlice(k).arr, 1, RunSlice(k).len)

\* C39: Run never writes into the caller's seed history: two runs,
\* successive or concurrent, seeded with the same history value each have a
\* history made of the seed's messages followed by their own messages, and
\* no message appended by one run appears in or overwrites a message of the
\* history of the other run.
C39_SeedNotShared ==
    xs.pc = "seeded" =>
        \A k \in Runs :
            RunHistory(k) = [j \in 1..xs.seedLen |-> [run |-> 0, n |-> j]]
                               \o [j \in 1..xs.run[k].n |-> [run |-> k, n |-> j]]

====
